---- MODULE Spec2Model ----
(***************************************************************************)
(* VoiceScribe: the sequential webhook queue (routes/webhook.js), the      *)
(* Whisper client with its retry loop (services/whisper.js) and the        *)
(* sql.js-backed store (services/storage.js).                              *)
(*                                                                         *)
(* JavaScript runs one callback at a time; an async function gives up      *)
(* control only at an await.  Every action below is one such run: from the *)
(* event that resumes the code (a request arriving, a fetch settling, a    *)
(* timer firing) up to the next await or the end of the function.          *)
(*                                                                         *)
(* Strings whose content the code inspects are sequences of one-character  *)
(* strings, so that includes(), trim(), split() and template literals are  *)
(* computed and not assumed.                                               *)
(***************************************************************************)
EXTENDS Integers, Sequences, FiniteSets, TLC

VARIABLES
    messageQueue,   \* webhook.js:9   items waiting, head first
    processing,     \* webhook.js:10  the drain flag
    drains,         \* suspended processQueue() invocations (one frame each)
    db,             \* storage.js db: the in-memory database
    disk,           \* the file at dbPath: the last snapshot written
    emitted,        \* records handed to transcriptionEmitter.emit('new', ...)
    forwardEnv,     \* process.env.FORWARD_TO_NUMBERS
    arrived,        \* observation: number of items pushed so far; an item's
                    \* tag is its arrival number, waited tells that it was
                    \* pushed while the flag was set, enqueuedAt when
    started,        \* observation: tags in the order the loop dequeued them
    completed,      \* observation: [tag, outcome] in the order processing ended
    probe,          \* a transcribeAudio call made directly (SpecWhisper)
    now,            \* Date.now(), in milliseconds
    reopens,        \* whether db.export() of the sql.js build closes and
                    \* reopens the connection (sql.js documents that it does)
    sseClients,     \* api.js sseClients, in insertion order
    delivered,      \* observation: what has been written to each response
    calls,          \* observation: the calls made on the store (SpecStore)
                    \* and the requests answered (SpecList, SpecIntake)
    appSecret       \* whether process.env.WHATSAPP_APP_SECRET is set

vars == <<messageQueue, processing, drains, db, disk, emitted, forwardEnv,
          arrived, started, completed, probe, now, reopens, sseClients,
          delivered, calls, appSecret>>

queueVars == <<messageQueue, processing, drains, arrived, started, completed>>
storeVars == <<db, disk, emitted>>
envVars == <<forwardEnv, reopens, now, appSecret>>
sseVars == <<sseClients, delivered>>

Null == "null"          \* JavaScript null / undefined

(***************************************************************************)
(* Strings                                                                 *)
(***************************************************************************)
\* String.prototype.includes
Includes(s, t) ==
    \E i \in 0..(Len(s) - Len(t)) : SubSeq(s, i + 1, i + Len(t)) = t

DigitChar(d) ==
    CASE d = 0 -> "0" [] d = 1 -> "1" [] d = 2 -> "2" [] d = 3 -> "3"
      [] d = 4 -> "4" [] d = 5 -> "5" [] d = 6 -> "6" [] d = 7 -> "7"
      [] d = 8 -> "8" [] d = 9 -> "9"

\* a non-negative integer inside a template literal
RECURSIVE Decimal(_)
Decimal(n) ==
    IF n < 10 THEN <<DigitChar(n)>>
    ELSE Decimal(n \div 10) \o <<DigitChar(n % 10)>>

IsSpace(c) == c = " "

\* String.prototype.trim
RECURSIVE TrimLeft(_)
TrimLeft(s) ==
    IF s # <<>> /\ IsSpace(Head(s)) THEN TrimLeft(Tail(s)) ELSE s

RECURSIVE TrimRight(_)
TrimRight(s) ==
    IF s # <<>> /\ IsSpace(s[Len(s)])
    THEN TrimRight(SubSeq(s, 1, Len(s) - 1)) ELSE s

Trim(s) == TrimRight(TrimLeft(s))

\* String.prototype.split(','): the pieces between commas, empty ones kept
RECURSIVE SplitComma(_, _)
SplitComma(s, piece) ==
    IF s = <<>> THEN <<piece>>
    ELSE IF Head(s) = "," THEN <<piece>> \o SplitComma(Tail(s), <<>>)
    ELSE SplitComma(Tail(s), Append(piece, Head(s)))

RECURSIVE FilterNonEmpty(_)
FilterNonEmpty(ps) ==
    IF ps = <<>> THEN <<>>
    ELSE IF Head(ps) = <<>> THEN FilterNonEmpty(Tail(ps))
    ELSE <<Head(ps)>> \o FilterNonEmpty(Tail(ps))

\* String.prototype.toLowerCase, for the letters that occur here
ToLower(c) ==
    CASE c = "H" -> "h" [] c = "E" -> "e" [] c = "L" -> "l" [] c = "P" -> "p"
      [] OTHER -> c

ToLowerCase(s) == [i \in 1..Len(s) |-> ToLower(s[i])]

\* Math.pow(2, n)
RECURSIVE Pow2(_)
Pow2(n) == IF n <= 0 THEN 1 ELSE 2 * Pow2(n - 1)

\* JSON values that may be a number or null: a || b picks the first truthy one
JNull == [t |-> "null", v |-> 0]
JNum(n) == [t |-> "num", v |-> n]
Truthy(j) == j.t = "num" /\ j.v # 0
OrElse(a, b) == IF Truthy(a) THEN a ELSE b

(***************************************************************************)
(* services/whisper.js                                                     *)
(***************************************************************************)
MAX_FILE_SIZE == 25 * 1024 * 1024

DefaultMaxRetries == 3

\* bound: the largest maxRetries option SpecWhisper passes
MaxRetriesOption == 4

S_429 == <<"4", "2", "9">>
S_500 == <<"5", "0", "0">>
S_502 == <<"5", "0", "2">>
S_503 == <<"5", "0", "3">>
S_fetch == <<"f", "e", "t", "c", "h">>
S_WhisperAPI == <<"W", "h", "i", "s", "p", "e", "r", " ", "A", "P", "I", " ">>
S_error == <<"e", "r", "r", "o", "r", " ">>
S_colon == <<":", " ">>
S_fetchFailed == <<"f", "e", "t", "c", "h", " ", "f", "a", "i", "l", "e", "d">>
S_unexpectedToken ==
    <<"U", "n", "e", "x", "p", "e", "c", "t", "e", "d", " ",
      "t", "o", "k", "e", "n">>
S_tooLarge == <<"p", "r", "e", "a", " ", "m", "a", "r", "e", " ", "(">>
S_MB == <<"M", "B", ")">>

\* Error bodies the transcription API may send with a non-2xx status
ErrorBodies ==
    { <<>>,
      <<"b", "a", "d">>,
      <<"m", "a", "x", " ", "2", "5", "0", "0", "0">>,
      <<"r", "e", "f", "e", "t", "c", "h">> }

HttpErrorStatuses == {400, 401, 404, 413, 429, 500, 502, 503, 504}

NoResult == [text |-> Null, language |-> Null, duration |-> JNull]

\* What one remote exchange (fetch, then reading the body) can come to
WhisperResults ==
    { [text |-> "t", language |-> l, duration |-> d] :
        l \in {"hu", Null}, d \in {JNum(7), JNull} }

WhisperResponses ==
    { [kind |-> "http", status |-> s, body |-> b, json |-> NoResult] :
        s \in HttpErrorStatuses, b \in ErrorBodies }
    \cup { [kind |-> "ok", status |-> 200, body |-> <<>>, json |-> j] :
             j \in WhisperResults }
    \cup { [kind |-> "badjson", status |-> 200, body |-> <<>>, json |-> NoResult],
           [kind |-> "neterr", status |-> 0, body |-> <<>>, json |-> NoResult] }

\* new Error(message); NoError is the null that lastError starts as
Err(message) == [isNull |-> FALSE, message |-> message]
NoError == [isNull |-> TRUE, message |-> <<>>]

\* whisper.js:37-39
SizeError(size) ==
    Err(S_tooLarge \o Decimal((size + 512 * 1024) \div (1024 * 1024)) \o S_MB)

\* The error raised inside the try block for a response that is no success
\* (whisper.js:56-73): fetch rejecting, a non-ok status, or a body that is no JSON
AttemptError(resp) ==
    CASE resp.kind = "neterr" -> Err(S_fetchFailed)
      [] resp.kind = "badjson" -> Err(S_unexpectedToken)
      [] resp.kind = "http" ->
            IF resp.status < 500 /\ resp.status # 429
            THEN Err(S_WhisperAPI \o S_error \o Decimal(resp.status)
                     \o S_colon \o resp.body)
            ELSE Err(S_WhisperAPI \o Decimal(resp.status) \o S_colon \o resp.body)

\* whisper.js:83-87
IsRetryable(error) ==
    \/ Includes(error.message, S_429)
    \/ Includes(error.message, S_500)
    \/ Includes(error.message, S_502)
    \/ Includes(error.message, S_503)
    \/ Includes(error.message, S_fetch)

\* whisper.js:90
BackoffDelay(attempt) == Pow2(attempt) * 1000

\* whisper.js:75-80
NormalizeResult(json) ==
    [text |-> json.text,
     language |-> IF json.language # Null /\ json.language # ""
                  THEN json.language ELSE "unknown",
     duration |-> OrElse(json.duration, JNull)]

\* a loop that stops one attempt short
LoopGuardShort(attempt, maxRetries) == attempt < maxRetries

\* whisper.js:46 the loop condition
LoopGuard(attempt, maxRetries) == attempt <= maxRetries

\* a retry test that forgets the attempts that are left
RetryGuardAlways(attempt, maxRetries, error) == IsRetryable(error)

\* whisper.js:89 retry or give up
RetryGuard(attempt, maxRetries, error) ==
    attempt < maxRetries /\ IsRetryable(error)

\* A transcribeAudio invocation.  st: "fetch" (awaiting the remote exchange of
\* the current attempt), "sleep" (awaiting the backoff timer), "returned",
\* "thrown".  attempts, waits, seen and lastResp are observations: remote
\* calls issued, the delays slept, the kind of every response received, and
\* the latest response.
NoCall == [st |-> "none"]

NoResponse == [kind |-> "none", status |-> 0, body |-> <<>>, json |-> NoResult]

\* whisper.js:46-62 entering the loop body for `attempt`, or leaving the loop
\* (whisper.js:99-100)
EnterAttempt(call, attempt) ==
    IF LoopGuard(attempt, call.maxRetries)
    THEN [call EXCEPT !.st = "fetch", !.attempt = attempt,
                      !.attempts = call.attempts + 1]
    ELSE [call EXCEPT !.st = "thrown", !.attempt = attempt,
                      !.error = call.lastError]

\* whisper.js:35-46
TranscribeStart(size, maxRetries) ==
    LET c == [st |-> "init", size |-> size, maxRetries |-> maxRetries,
              attempt |-> 0, lastError |-> NoError, error |-> NoError,
              result |-> NoResult, attempts |-> 0, waits |-> <<>>, seen |-> <<>>,
              lastResp |-> NoResponse]
    IN  IF size > MAX_FILE_SIZE
        THEN [c EXCEPT !.st = "thrown", !.error = SizeError(size)]
        ELSE EnterAttempt(c, 1)

\* observation only: how spec.md 4.4 / 7 would class the response
ResponseClass(resp) ==
    CASE resp.kind = "ok" -> "ok"
      [] resp.kind = "neterr" -> "transport"
      [] resp.kind = "badjson" -> "parse"
      [] resp.kind = "http" ->
            IF resp.status \in {429, 500, 502, 503} THEN "retryable"
            ELSE IF resp.status >= 400 /\ resp.status < 500 THEN "client"
            ELSE "server"

\* whisper.js:56-96 the remote exchange of the current attempt settles
TranscribeResponse(call, resp) ==
    LET c == [call EXCEPT !.seen = Append(call.seen, ResponseClass(resp)),
                          !.lastResp = resp]
    IN  IF resp.kind = "ok"
        THEN [c EXCEPT !.st = "returned", !.result = NormalizeResult(resp.json)]
        ELSE LET e == AttemptError(resp)
             IN  IF RetryGuard(c.attempt, c.maxRetries, e)
                 THEN [c EXCEPT !.st = "sleep", !.lastError = e,
                                !.waits = Append(c.waits, BackoffDelay(c.attempt))]
                 ELSE [c EXCEPT !.st = "thrown", !.lastError = e, !.error = e]

\* whisper.js:92, 46 the backoff timer fires: attempt++ and the loop condition
TranscribeWake(call) == EnterAttempt(call, call.attempt + 1)

(***************************************************************************)
(* services/storage.js                                                     *)
(***************************************************************************)
SettingKeys == {"auto_reply", "default_language"}

\* storage.js:347-396 a fresh database: both tables, the default settings
InitialDb ==
    [rows |-> <<>>,                 \* the transcriptions table, in rowid order
     seq |-> 0,                     \* AUTOINCREMENT's sqlite_sequence value
     lastRowid |-> 0,               \* last_insert_rowid()
     settings |-> [k \in SettingKeys |->
                     IF k = "auto_reply" THEN "true" ELSE "auto"]]

\* storage.js:384-387
Defaults == [k \in SettingKeys |-> IF k = "auto_reply" THEN "true" ELSE "auto"]

\* the file at dbPath before a start: missing, or the snapshot of an earlier run
NoFile == [exists |-> FALSE]
File(snap) == [exists |-> TRUE, snap |-> snap]

\* a seeding by INSERT OR REPLACE, with no look at what is stored
initDatabaseReplacing(file) ==
    LET loaded == IF file.exists THEN file.snap
                  ELSE [rows |-> <<>>, seq |-> 0, settings |-> <<>>]
    IN  [rows |-> loaded.rows, seq |-> loaded.seq, lastRowid |-> 0,
         settings |-> [k \in DOMAIN loaded.settings \cup SettingKeys |->
                         IF k \in SettingKeys THEN Defaults[k]
                         ELSE loaded.settings[k]]]

\* storage.js:347-394 the database after a start: the tables of the file,
\* or empty ones, and for each default key that has no row a row with the
\* default value (the persist() of line 396 is the caller's step)
initDatabase(file) ==
    LET loaded == IF file.exists THEN file.snap
                  ELSE [rows |-> <<>>, seq |-> 0, settings |-> <<>>]
    IN  [rows |-> loaded.rows, seq |-> loaded.seq, lastRowid |-> 0,
         settings |-> [k \in DOMAIN loaded.settings \cup SettingKeys |->
                         IF k \in DOMAIN loaded.settings THEN loaded.settings[k]
                         ELSE Defaults[k]]]

\* storage.js:575-579
getSetting(d, key) ==
    IF key \in DOMAIN d.settings THEN d.settings[key] ELSE Null

\* INTEGER PRIMARY KEY without AUTOINCREMENT: one more than the largest id
\* in the table
InsertRowMaxPlusOne(d, fields) ==
    LET ids == { d.rows[k].id : k \in 1..Len(d.rows) }
        id == IF ids = {} THEN 1
              ELSE 1 + CHOOSE m \in ids : \A n \in ids : n <= m
    IN  [d EXCEPT !.rows = Append(d.rows, [fields EXCEPT !.id = id]),
                  !.seq = id, !.lastRowid = id]

\* storage.js:413-417 INSERT into a table whose id is AUTOINCREMENT
InsertRow(d, fields) ==
    LET id == d.seq + 1
    IN  [d EXCEPT !.rows = Append(d.rows, [fields EXCEPT !.id = id]),
                  !.seq = id, !.lastRowid = id]

\* storage.js:479-488
getTranscription(d, id) ==
    LET hits == { i \in 1..Len(d.rows) : d.rows[i].id = id }
    IN  IF hits = {} THEN <<>> ELSE <<d.rows[CHOOSE i \in hits : TRUE]>>

\* storage.js:404 db.export(): the bytes of the database, that is, both
\* tables and the AUTOINCREMENT sequence
Snapshot(d) == [rows |-> d.rows, seq |-> d.seq, settings |-> d.settings]

\* storage.js:404 the connection after db.export(): sql.js closes the
\* database and opens it again, and last_insert_rowid() of a connection that
\* has inserted nothing is 0
Exported(d) == IF reopens THEN [d EXCEPT !.lastRowid = 0] ELSE d

\* storage.js:403-407.  written: whether fs.writeFileSync succeeded (it
\* throws otherwise)
persist(d, dsk, written) ==
    [db |-> Exported(d),
     disk |-> IF written THEN Snapshot(d) ELSE dsk,
     threw |-> ~written]

\* storage.js:412-430.  The result holds the new db, disk and emitted, whether
\* the call threw (at persist, after the row is already in memory), the value
\* returned, and rowid, the id the INSERT gave the row (observation).
saveTranscription(d, dsk, em, fields, written) ==
    LET d1 == InsertRow(d, fields)
        p == persist(d1, dsk, written)
        id == p.db.lastRowid
        rec == getTranscription(p.db, id)
    IN  IF p.threw
        THEN [db |-> p.db, disk |-> p.disk, emitted |-> em, threw |-> TRUE,
              id |-> 0, rowid |-> d1.seq]
        ELSE [db |-> p.db, disk |-> p.disk,
              emitted |-> IF rec # <<>> THEN Append(em, rec[1]) ELSE em,
              threw |-> FALSE, id |-> id, rowid |-> d1.seq]

HasId(d, id) == \E k \in 1..Len(d.rows) : d.rows[k].id = id

RowIds(d) == { d.rows[k].id : k \in 1..Len(d.rows) }

\* an UPDATE without its WHERE clause
updateTranscriptionEvery(d, dsk, id, text, written) ==
    IF ~HasId(d, id)
    THEN [db |-> d, disk |-> dsk, threw |-> FALSE, ret |-> FALSE]
    ELSE LET d1 == [d EXCEPT !.rows =
                      [k \in 1..Len(d.rows) |->
                         [d.rows[k] EXCEPT !.transcription = text]]]
             p == persist(d1, dsk, written)
         IN  [db |-> p.db, disk |-> p.disk, threw |-> p.threw, ret |-> ~p.threw]

\* storage.js:493-500
updateTranscription(d, dsk, id, text, written) ==
    IF ~HasId(d, id)
    THEN [db |-> d, disk |-> dsk, threw |-> FALSE, ret |-> FALSE]
    ELSE LET d1 == [d EXCEPT !.rows =
                      [k \in 1..Len(d.rows) |->
                         IF d.rows[k].id = id
                         THEN [d.rows[k] EXCEPT !.transcription = text]
                         ELSE d.rows[k]]]
             p == persist(d1, dsk, written)
         IN  [db |-> p.db, disk |-> p.disk, threw |-> p.threw, ret |-> ~p.threw]

RECURSIVE WithoutId(_, _)
WithoutId(rows, id) ==
    IF rows = <<>> THEN <<>>
    ELSE IF Head(rows).id = id THEN WithoutId(Tail(rows), id)
    ELSE <<Head(rows)>> \o WithoutId(Tail(rows), id)

\* a delete that does not look whether the row is there
deleteTranscriptionBlind(d, dsk, id, written) ==
    LET p == persist([d EXCEPT !.rows = WithoutId(d.rows, id)], dsk, written)
    IN  [db |-> p.db, disk |-> p.disk, threw |-> p.threw, ret |-> ~p.threw]

\* storage.js:505-514
deleteTranscription(d, dsk, id, written) ==
    IF ~HasId(d, id)
    THEN [db |-> d, disk |-> dsk, threw |-> FALSE, ret |-> FALSE]
    ELSE LET p == persist([d EXCEPT !.rows = WithoutId(d.rows, id)], dsk, written)
         IN  [db |-> p.db, disk |-> p.disk, threw |-> p.threw, ret |-> ~p.threw]

\* storage.js:519-522 DELETE without WHERE: the rows go, sqlite_sequence stays
deleteAllTranscriptions(d, dsk, written) ==
    LET p == persist([d EXCEPT !.rows = <<>>], dsk, written)
    IN  [db |-> p.db, disk |-> p.disk, threw |-> p.threw, ret |-> ~p.threw]

\* storage.js:596-599 INSERT OR REPLACE of the key with String(value)
setSetting(d, dsk, key, value, written) ==
    LET old == d.settings
        d1 == [d EXCEPT !.settings =
                 [k \in DOMAIN old \cup {key} |->
                    IF k = key THEN value ELSE old[k]]]
        p == persist(d1, dsk, written)
    IN  [db |-> p.db, disk |-> p.disk, threw |-> p.threw]

\* JSON values of a request body, and String(value) (storage.js:597)
JBool(b) == [t |-> "bool", b |-> b, s |-> ""]
JStr(str) == [t |-> "str", b |-> FALSE, s |-> str]
StringOf(v) ==
    IF v.t = "bool" THEN (IF v.b THEN "true" ELSE "false") ELSE v.s

\* an update that writes whatever key the body names
AllowedAny(key) == TRUE

\* api.js PATCH /api/settings: allowed.includes(key)
Allowed(key) == key \in SettingKeys

\* api.js PATCH /api/settings: the loop over Object.entries(req.body) from
\* entry k on; a setSetting that throws ends the loop (the catch answers 500)
RECURSIVE patchSettings(_, _, _, _, _)
patchSettings(d, dsk, body, k, written) ==
    IF k > Len(body) THEN [db |-> d, disk |-> dsk, threw |-> FALSE]
    ELSE IF Allowed(body[k].key)
    THEN LET r == setSetting(d, dsk, body[k].key, StringOf(body[k].value),
                             written)
         IN  IF r.threw THEN r
             ELSE patchSettings(r.db, r.disk, body, k + 1, written)
    ELSE patchSettings(d, dsk, body, k + 1, written)

\* observation: the calls made on the store so far.  n counts them, last is
\* the latest with what it returned, assigned lists the ids INSERT has given,
\* saved counts the saveTranscription calls that returned.
NoCalls == [n |-> 0, last |-> [op |-> "none"], assigned |-> <<>>, saved |-> 0]

\* storage.js:435-474, 604-613 what the list readers return: every row
\* (getTranscriptions pages through them, exportAll returns them all)
exportAll(d) == { d.rows[k] : k \in 1..Len(d.rows) }

\* storage.js:528-529 getStats().totalTranscriptions
totalTranscriptions(d) == Len(d.rows)

\* a request parameter (req.query.limit, req.query.search, ...) that may be
\* missing
NoParam == [defined |-> FALSE, s |-> <<>>]
NoSource == [defined |-> FALSE, s |-> ""]
Param(str) == [defined |-> TRUE, s |-> str]

\* a number or NaN
NaN == [nan |-> TRUE, v |-> 0]
Num(n) == [nan |-> FALSE, v |-> n]

DigitChars == { DigitChar(d) : d \in 0..9 }
DigitValue(c) == CHOOSE d \in 0..9 : DigitChar(d) = c

\* the decimal digits a string starts with, as parseInt reads them
RECURSIVE DigitsPrefix(_, _, _)
DigitsPrefix(s, acc, seen) ==
    IF s # <<>> /\ Head(s) \in DigitChars
    THEN DigitsPrefix(Tail(s), acc * 10 + DigitValue(Head(s)), TRUE)
    ELSE IF seen THEN Num(acc) ELSE NaN

\* parseInt(string): leading white space, a sign, then digits up to the
\* first character that is none; NaN when there is no digit, or no string
ParseInt(q) ==
    IF ~q.defined THEN NaN
    ELSE LET t == TrimLeft(q.s)
             signed == t # <<>> /\ Head(t) \in {"-", "+"}
             p == DigitsPrefix(IF signed THEN Tail(t) ELSE t, 0, FALSE)
         IN  IF p.nan THEN NaN
             ELSE IF signed /\ Head(t) = "-" THEN Num(0 - p.v) ELSE p

\* number || fallback: NaN and 0 are falsy
NumOr(x, fallback) == IF x.nan \/ x.v = 0 THEN fallback ELSE x.v

\* Math.min
MathMin(a, b) == IF a <= b THEN a ELSE b

\* api.js:332 the largest page size the route passes on
PageCap == 100

\* api.js:331
PageOf(q) == NumOr(ParseInt(q), 1)

\* api.js:332
LimitOf(q) == MathMin(NumOr(ParseInt(q), 20), PageCap)


\* SQL `text LIKE '%' || search || '%'` for a search without % and _: the
\* search occurs in the text, letters compared without case
Like(text, search) == Includes(ToLowerCase(text), ToLowerCase(search))

\* storage.js:439-449 the WHERE clause
Selected(row, source, search) ==
    /\ (source.defined /\ source.s # "" /\ source.s # "all") =>
          row.source = source.s
    /\ (search.defined /\ search.s # <<>>) =>
          \/ Like(row.transcription, search.s)
          \/ Like(row.sender_name, search.s)

Filter(rows, source, search) ==
    SelectSeq(rows, LAMBDA row : Selected(row, source, search))

Reverse(s) == [i \in 1..Len(s) |-> s[Len(s) + 1 - i]]

\* SQL `LIMIT limit OFFSET offset`: a negative OFFSET counts as 0, a negative
\* LIMIT is no limit at all
LimitOffset(rows, limit, offset) ==
    LET from == IF offset < 0 THEN 0 ELSE offset
        to == IF limit < 0 THEN Len(rows)
              ELSE MathMin(Len(rows), from + limit)
    IN  SubSeq(rows, from + 1, to)

\* Math.ceil(total / limit) || 1 for a limit that is not 0
TotalPages(total, limit) ==
    LET c == IF limit > 0 THEN (total + limit - 1) \div limit
             ELSE 0 - (total \div (0 - limit))
    IN  IF c = 0 THEN 1 ELSE c

\* storage.js:435-474 (rows are kept in the order they were inserted, which
\* is the order of created_at; the newest comes first in the answer)
getTranscriptions(d, page, limit, source, search) ==
    LET hits == Reverse(Filter(d.rows, source, search))
        offset == (page - 1) * limit
    IN  [data |-> LimitOffset(hits, limit, offset),
         pagination |-> [page |-> page, limit |-> limit, total |-> Len(hits),
                         totalPages |-> TotalPages(Len(hits), limit)]]

(***************************************************************************)
(* routes/api.js: the live-update stream                                   *)
(***************************************************************************)
\* bound: the responses that subscribe to /api/stream
MaxSubscribers == 2

SseClientIds == 1..MaxSubscribers

ConnectedEvent == [type |-> "connected", id |-> 0]

\* api.js: the payload { type: 'new_transcription', data }
NewEvent(data) == [type |-> "new_transcription", id |-> data.id, data |-> data]

\* a loop that a failing write ends, as it would if write() threw
RECURSIVE BroadcastAborting(_, _, _, _, _)
BroadcastAborting(clients, dl, data, writes, k) ==
    IF k > Len(clients) THEN dl
    ELSE LET c == clients[k]
         IN  IF writes[c]
             THEN BroadcastAborting(clients,
                                    [dl EXCEPT ![c] = Append(@, NewEvent(data))],
                                    data, writes, k + 1)
             ELSE dl

\* api.js transcriptionEmitter.on('new', ...): the loop over sseClients from
\* its k-th member on.  writes[c]: whether the write to c gets through; a
\* write to a response whose connection is gone returns false and reports
\* its error later, it does not throw.
RECURSIVE Broadcast(_, _, _, _, _)
Broadcast(clients, dl, data, writes, k) ==
    IF k > Len(clients) THEN dl
    ELSE LET c == clients[k]
         IN  Broadcast(clients,
                       IF writes[c] THEN [dl EXCEPT ![c] = Append(@, NewEvent(data))]
                       ELSE dl,
                       data, writes, k + 1)

\* EventEmitter.emit runs its listeners before it returns: what the events
\* emitted by a call (those of em1 that are not in em) bring to the clients
RECURSIVE Emit(_, _, _, _, _)
Emit(clients, dl, em, em1, writes) ==
    IF Len(em1) <= Len(em) THEN dl
    ELSE Emit(clients, Broadcast(clients, dl, em1[Len(em) + 1], writes, 1),
              Append(em, em1[Len(em) + 1]), em1, writes)

AllWritesOk == [c \in SseClientIds |-> TRUE]

(***************************************************************************)
(* routes/webhook.js: what arrives                                         *)
(***************************************************************************)
\* bound: webhook requests carrying a message that Spec lets arrive
MaxArrivals == 2

\* bound: webhook requests carrying a message that SpecQueue lets arrive
MaxQueueArrivals == 4

Phone1 == <<"1">>
Phone2 == <<"2">>

NoAudio == [defined |-> FALSE, duration |-> JNull]
NoText == [defined |-> FALSE, body |-> <<>>]

TextBodies == { <<" ", "H", "e", "l", "p">>, <<"h", "i">> }

\* changes.value.messages[0] of the request body: voice messages from two
\* senders, an audio message without its audio object, texts, another type
WebhookMessages ==
    { [type |-> "audio", from |-> p, text |-> NoText,
       audio |-> [defined |-> TRUE, duration |-> JNull]] : p \in {Phone1, Phone2} }
    \cup { [type |-> "audio", from |-> Phone1, text |-> NoText, audio |-> NoAudio] }
    \cup { [type |-> "text", from |-> Phone1, audio |-> NoAudio,
            text |-> [defined |-> TRUE, body |-> b]] : b \in TextBodies }
    \cup { [type |-> "image", from |-> Phone2, audio |-> NoAudio, text |-> NoText] }

\* process.env.FORWARD_TO_NUMBERS: unset, "1, 2," and "2,2"
ForwardConfigs ==
    { <<>>,
      <<"1", ",", " ", "2", ",">>,
      <<"2", ",", "2">> }

\* what downloadWhatsAppMedia (whatsapp.js:223-252) can come to: either of its
\* two fetches failing, or the bytes
DownloadOutcomes ==
    { [ok |-> FALSE, size |-> 0],
      [ok |-> TRUE, size |-> MAX_FILE_SIZE],
      [ok |-> TRUE, size |-> MAX_FILE_SIZE + 1] }

\* the responses of the transcription API the queue model draws from
QueueWhisperResponses ==
    { r \in WhisperResponses :
        \/ r.kind = "ok" /\ r.json.language = "hu" /\ r.json.duration = JNum(7)
        \/ r.kind = "http" /\ r.status \in {400, 500} /\ r.body = <<>> }

(***************************************************************************)
(* routes/webhook.js: handleAudioMessage and handleTextMessage             *)
(***************************************************************************)
\* One frame is one suspended processQueue() call together with the handler it
\* awaits.  pc names the await the handler is suspended at; "settled" means
\* the handler's promise has settled (outcome "returned" or "thrown") and the
\* continuation of processQueue is queued.  obs is observation only: what this
\* item has caused so far.
\* webhook.js:143-145 the language option of the transcribeAudio call:
\* undefined for 'auto', the setting otherwise
NoLanguage == [defined |-> FALSE, value |-> ""]
LanguageOption(defaultLang) ==
    IF defaultLang # "auto" THEN [defined |-> TRUE, value |-> defaultLang]
    ELSE NoLanguage

NewObs ==
    [downloads |-> <<>>, waits |-> <<>>, notices |-> <<>>, notice |-> "none",
     transcribeCalls |-> 0,
     inserted |-> <<>>, persisted |-> <<>>, replies |-> 0, reply |-> "none",
     help |-> 0, tpl |-> <<>>, plain |-> <<>>, language |-> NoLanguage]

NewFrame(item) ==
    [pc |-> "new", outcome |-> "running", item |-> item, size |-> 0,
     timestamp |-> now,             \* webhook.js:87 const timestamp = Date.now()
     call |-> NoCall, transcription |-> NoResult, numbers |-> <<>>, j |-> 0,
     obs |-> NewObs]

Settle(f, outcome) == [f EXCEPT !.pc = "settled", !.outcome = outcome]

\* a size test that turns away exactly 25 MiB as well
TooLargeOrEqual(size) == size >= 25 * 1024 * 1024

\* webhook.js:132
TooLarge(size) == size > 25 * 1024 * 1024

\* webhook.js:170
ForwardNumbers(env) ==
    LET pieces == SplitComma(env, <<>>)
    IN  FilterNonEmpty([i \in 1..Len(pieces) |-> Trim(pieces[i])])

\* a forward loop that does not leave out the sender
NotSenderSkipped(number, senderPhone) == TRUE

\* webhook.js:174
NotSender(number, senderPhone) == number # senderPhone

\* webhook.js:173-195 the for loop from entry j on, up to its next await
RECURSIVE ForwardFrom(_, _)
ForwardFrom(f, j) ==
    IF j > Len(f.numbers) THEN Settle(f, "returned")
    ELSE IF NotSender(f.numbers[j], f.item.senderPhone)
    THEN [f EXCEPT !.pc = "template", !.j = j,
                   !.obs.tpl = Append(@, [j |-> j, to |-> f.numbers[j],
                                          result |-> "pending"])]
    ELSE ForwardFrom(f, j + 1)

\* webhook.js:167-172
StartForward(f, env) ==
    IF env = <<>> THEN Settle(f, "returned")
    ELSE ForwardFrom([f EXCEPT !.numbers = ForwardNumbers(env)], 1)

\* a test that takes every value but 'false' for a yes
AutoReplyUnlessFalse(d) == getSetting(d, "auto_reply") # "false"

\* webhook.js:160-161
AutoReplyOn(d) == getSetting(d, "auto_reply") = "true"

\* webhook.js:146-172 from the transcription result to the next await
AfterTranscribed(f, d, dsk, em, env, result, written) ==
    LET fields == [id |-> 0,
                   sender |-> f.item.senderPhone,
                   sender_name |-> f.item.senderName,
                   timestamp |-> f.timestamp \div 1000,
                   transcription |-> result.text,
                   language |-> result.language,
                   duration |-> OrElse(OrElse(result.duration,
                                              f.item.message.audio.duration),
                                       JNull),
                   source |-> "whatsapp"]
        sv == saveTranscription(d, dsk, em, fields, written)
        f1 == [f EXCEPT !.transcription = result,
                        !.obs.inserted = Append(@, sv.rowid),
                        !.obs.persisted = IF sv.threw THEN @
                                          ELSE Append(@, sv.rowid)]
        f2 == IF sv.threw THEN Settle(f1, "thrown")
              ELSE IF AutoReplyOn(sv.db)
              THEN [f1 EXCEPT !.pc = "reply", !.obs.replies = @ + 1,
                              !.obs.reply = "pending"]
              ELSE StartForward(f1, env)
    IN  [f |-> f2, db |-> sv.db, disk |-> sv.disk, emitted |-> sv.emitted]

\* a handler whose module read default_language once, when it was loaded
AfterDownloadLanguageAtLoad(f, size) ==
    IF TooLarge(size)
    THEN [f EXCEPT !.pc = "noticeTooLarge", !.size = size,
                   !.obs.notices = Append(@, "tooLarge"),
                   !.obs.notice = "pending"]
    ELSE LET call == TranscribeStart(size, DefaultMaxRetries)
             f1 == [f EXCEPT !.size = size, !.call = call,
                             !.obs.transcribeCalls = @ + 1,
                             !.obs.language =
                                LanguageOption(getSetting(InitialDb,
                                                          "default_language"))]
         IN  IF call.st = "thrown" THEN Settle(f1, "thrown")
             ELSE [f1 EXCEPT !.pc = "transcribe"]

\* webhook.js:131-145 from the downloaded bytes to the next await;
\* default_language is read from the database as it is now (webhook.js:142)
AfterDownload(f, size) ==
    IF TooLarge(size)
    THEN [f EXCEPT !.pc = "noticeTooLarge", !.size = size,
                   !.obs.notices = Append(@, "tooLarge"),
                   !.obs.notice = "pending"]
    ELSE LET call == TranscribeStart(size, DefaultMaxRetries)
             f1 == [f EXCEPT !.size = size, !.call = call,
                             !.obs.transcribeCalls = @ + 1,
                             !.obs.language =
                                LanguageOption(getSetting(db, "default_language"))]
         IN  IF call.st = "thrown" THEN Settle(f1, "thrown")
             ELSE [f1 EXCEPT !.pc = "transcribe"]

SetLast(s, field, v) == [s EXCEPT ![Len(s)][field] = v]

\* a handler that catches the transcription error and tells the sender
TranscribeFailedNoticed(f) ==
    [f EXCEPT !.pc = "noticeDownload",
              !.obs.notices = Append(@, "transcription"),
              !.obs.notice = "pending"]

\* webhook.js:143 `await transcribeAudio(...)` rejects: nothing in
\* handleAudioMessage catches it, the handler's promise rejects
TranscribeFailed(f) == Settle(f, "thrown")

\* a download that is not tried again
AfterDownloadAttemptOnce(f, out) ==
    LET f1 == [f EXCEPT !.obs.downloads =
                 SetLast(@, "result", IF out.ok THEN "ok" ELSE "failed")]
    IN  IF out.ok THEN AfterDownload(f1, out.size)
        ELSE [f1 EXCEPT !.pc = "noticeDownload",
                        !.obs.notices = Append(@, "download"),
                        !.obs.notice = "pending"]

\* webhook.js:120 the fixed delay before the second download
RetryDelay == 2000

\* a download that is tried a third time after the second failure
AfterDownloadAttemptThrice(f, out) ==
    LET f1 == [f EXCEPT !.obs.downloads =
                 SetLast(@, "result", IF out.ok THEN "ok" ELSE "failed")]
    IN  IF out.ok THEN AfterDownload(f1, out.size)
        ELSE IF Len(f.obs.downloads) < 3
        THEN [f1 EXCEPT !.pc = "wait", !.obs.waits = Append(@, RetryDelay)]
        ELSE [f1 EXCEPT !.pc = "noticeDownload",
                        !.obs.notices = Append(@, "download"),
                        !.obs.notice = "pending"]

\* webhook.js:114-129 a call of downloadWhatsAppMedia settles
AfterDownloadAttempt(f, out) ==
    LET f1 == [f EXCEPT !.obs.downloads =
                 SetLast(@, "result", IF out.ok THEN "ok" ELSE "failed")]
    IN  IF out.ok THEN AfterDownload(f1, out.size)
        ELSE IF f.pc = "download1"
        THEN [f1 EXCEPT !.pc = "wait", !.obs.waits = Append(@, RetryDelay)]
        ELSE [f1 EXCEPT !.pc = "noticeDownload",
                        !.obs.notices = Append(@, "download"),
                        !.obs.notice = "pending"]

\* webhook.js:203
NormalizeBody(body) == Trim(ToLowerCase(body))

\* a test that looks for the keyword anywhere in the body
IsHelpIncluded(body) ==
    \/ Includes(body, <<"h", "e", "l", "p">>)
    \/ Includes(body, <<"s", "e", "g", "i", "t", "s", "e", "g">>)

\* webhook.js:205 ('segítség' is written without its accents here)
IsHelp(body) ==
    \/ body = <<"h", "e", "l", "p">>
    \/ body = <<"s", "e", "g", "i", "t", "s", "e", "g">>

\* webhook.js:90-94 the dispatch on message.type, run up to the first await of
\* the handler; pc "none" when no handler is called and nothing is awaited
Dispatch(item) ==
    LET f == NewFrame(item)
        m == item.message
    IN  IF m.type = "audio"
        THEN IF ~m.audio.defined THEN Settle(f, "thrown")
             ELSE [f EXCEPT !.pc = "download1",
                            !.obs.downloads = <<[result |-> "pending"]>>]
        ELSE IF m.type = "text"
        THEN IF ~m.text.defined THEN Settle(f, "thrown")
             ELSE IF IsHelp(NormalizeBody(m.text.body))
             THEN [f EXCEPT !.pc = "help", !.obs.help = 1]
             ELSE Settle(f, "returned")
        ELSE [f EXCEPT !.pc = "none"]

(***************************************************************************)
(* routes/webhook.js: processQueue                                         *)
(***************************************************************************)
\* a processQueue that starts a drain loop whatever the flag says
GuardIgnoringFlag(proc, q) == ~(Len(q) = 0)

\* webhook.js:82
ProcessQueueGuard(proc, q) == ~(proc \/ Len(q) = 0)

\* messageQueue.pop() in the place of shift()
DequeueLast(q) == [item |-> q[Len(q)], rest |-> SubSeq(q, 1, Len(q) - 1)]

\* webhook.js:86 messageQueue.shift()
Dequeue(q) == [item |-> Head(q), rest |-> Tail(q)]

\* a loop body without its try/catch
CatchRethrows(outcome) == "rethrow"

\* webhook.js:95-97 the catch block: log and go on with the loop
CatchBlock(outcome) == "continue"

\* a loop without the reset of the flag at its end (webhook.js:100 left out)
RECURSIVE DrainLoopFlagKept(_, _, _, _)
DrainLoopFlagKept(q, proc, st, co) ==
    IF Len(q) > 0
    THEN LET dq == Dequeue(q)
             f == Dispatch(dq.item)
             st1 == Append(st, dq.item.tag)
         IN  IF f.pc = "none"
             THEN DrainLoopFlagKept(dq.rest, proc, st1,
                            Append(co, [tag |-> dq.item.tag, outcome |-> "ignored"]))
             ELSE [q |-> dq.rest, processing |-> proc, started |-> st1,
                   completed |-> co, frames |-> <<f>>]
    ELSE [q |-> q, processing |-> proc, started |-> st, completed |-> co,
          frames |-> <<>>]

\* webhook.js:85-100 the while loop from its condition up to the next await.
\* frames is <<frame>> when the loop is suspended and <<>> when it has ended.
RECURSIVE DrainLoop(_, _, _, _)
DrainLoop(q, proc, st, co) ==
    IF Len(q) > 0
    THEN LET dq == Dequeue(q)
             f == Dispatch(dq.item)
             st1 == Append(st, dq.item.tag)
         IN  IF f.pc = "none"
             THEN DrainLoop(dq.rest, proc, st1,
                            Append(co, [tag |-> dq.item.tag, outcome |-> "ignored"]))
             ELSE [q |-> dq.rest, processing |-> proc, started |-> st1,
                   completed |-> co, frames |-> <<f>>]
    ELSE [q |-> q, processing |-> FALSE, started |-> st, completed |-> co,
          frames |-> <<>>]

\* an `if` in the place of the `while`: one item, then the flag is reset
LoopOnce(q, proc, st, co) ==
    [q |-> q, processing |-> FALSE, started |-> st, completed |-> co,
     frames |-> <<>>]

\* webhook.js:98, 85 the end of the loop body: back to the loop condition
LoopAgain(q, proc, st, co) == DrainLoop(q, proc, st, co)

\* webhook.js:81-101 a call of processQueue up to its first await
processQueue(q, proc, st, co) ==
    IF ProcessQueueGuard(proc, q)
    THEN DrainLoop(q, TRUE, st, co)
    ELSE [q |-> q, processing |-> proc, started |-> st, completed |-> co,
          frames |-> <<>>]

RemoveAt(s, i) == SubSeq(s, 1, i - 1) \o SubSeq(s, i + 1, Len(s))

(***************************************************************************)
(* Actions                                                                 *)
(***************************************************************************)
Init ==
    /\ messageQueue = <<>>
    /\ processing = FALSE
    /\ drains = <<>>
    /\ db = InitialDb
    /\ disk = Snapshot(InitialDb)
    /\ emitted = <<>>
    /\ forwardEnv \in ForwardConfigs
    /\ arrived = 0
    /\ started = <<>>
    /\ completed = <<>>
    /\ probe = NoCall
    /\ now = 0
    /\ reopens = TRUE
    /\ sseClients = <<>>
    /\ delivered = [c \in SseClientIds |-> <<>>]
    /\ calls = NoCalls
    /\ appSecret = FALSE

\* webhook.js:66-75 the message of an accepted request is pushed and
\* processQueue is called
Enqueue(msg) ==
    /\ LET item == [tag |-> arrived + 1, waited |-> processing,
                    enqueuedAt |-> now, message |-> msg,
                    senderPhone |-> msg.from, senderName |-> "Ismeretlen"]
           r == processQueue(Append(messageQueue, item), processing,
                             started, completed)
       IN  /\ messageQueue' = r.q
           /\ processing' = r.processing
           /\ started' = r.started
           /\ completed' = r.completed
           /\ drains' = drains \o r.frames
    /\ arrived' = arrived + 1
    /\ UNCHANGED <<storeVars, envVars, probe, sseVars>>

\* webhook.js:55-76 POST /webhook with a valid signature and a message
Webhook(msg) == Enqueue(msg) /\ UNCHANGED calls

\* a step of the handler of frame i that touches nothing but the frame
HandlerStep(i, f) ==
    /\ drains' = [drains EXCEPT ![i] = f]
    /\ UNCHANGED <<messageQueue, processing, arrived, started, completed,
                   storeVars, envVars, probe, sseVars, calls>>

\* webhook.js:116, 121 downloadWhatsAppMedia settles
DownloadSettles(i, out) ==
    /\ drains[i].pc \in {"download1", "download2"}
    /\ HandlerStep(i, AfterDownloadAttempt(drains[i], out))

\* webhook.js:120-121 the 2000 ms timer fires and the second download starts
WaitElapsed(i) ==
    /\ drains[i].pc = "wait"
    /\ HandlerStep(i, [drains[i] EXCEPT
                         !.pc = "download2",
                         !.obs.downloads = Append(@, [result |-> "pending"])])

\* a notice send without its .catch(): its failure leaves the handler
NoticeSettlesUncaught(i, ok) ==
    /\ drains[i].pc \in {"noticeDownload", "noticeTooLarge"}
    /\ LET f == [drains[i] EXCEPT !.obs.notice = IF ok THEN "sent" ELSE "failed"]
       IN  HandlerStep(i, Settle(f, IF ok THEN "returned" ELSE "thrown"))

\* webhook.js:124-127, 134-137 the notice send settles; .catch(() => {})
NoticeSettles(i, ok) ==
    /\ drains[i].pc \in {"noticeDownload", "noticeTooLarge"}
    /\ LET f == [drains[i] EXCEPT !.obs.notice = IF ok THEN "sent" ELSE "failed"]
       IN  HandlerStep(i, Settle(f, "returned"))

\* webhook.js:143 with whisper.js:56-96: the remote exchange settles
WhisperSettles(i, resp, written) ==
    /\ drains[i].pc = "transcribe"
    /\ drains[i].call.st = "fetch"
    /\ LET f == drains[i]
           call == TranscribeResponse(f.call, resp)
           f1 == [f EXCEPT !.call = call]
       IN  IF call.st = "returned"
           THEN LET w == AfterTranscribed(f1, db, disk, emitted, forwardEnv,
                                          call.result, written)
                IN  /\ drains' = [drains EXCEPT ![i] = w.f]
                    /\ db' = w.db
                    /\ disk' = w.disk
                    /\ emitted' = w.emitted
                    /\ delivered' = Emit(sseClients, delivered, emitted,
                                         w.emitted, AllWritesOk)
           ELSE /\ written
                /\ drains' = [drains EXCEPT ![i] =
                                IF call.st = "thrown" THEN TranscribeFailed(f1)
                                ELSE f1]
                /\ UNCHANGED <<storeVars, delivered>>
    /\ UNCHANGED <<messageQueue, processing, arrived, started, completed,
                   envVars, probe, sseClients, calls>>

\* whisper.js:92 the backoff timer fires
BackoffElapsed(i) ==
    /\ drains[i].pc = "transcribe"
    /\ drains[i].call.st = "sleep"
    /\ LET f == drains[i]
           call == TranscribeWake(f.call)
           f1 == [f EXCEPT !.call = call]
       IN  HandlerStep(i, IF call.st = "thrown" THEN TranscribeFailed(f1) ELSE f1)

\* webhook.js:163 the reply send settles; a failure is not caught here
ReplySettles(i, ok) ==
    /\ drains[i].pc = "reply"
    /\ LET f == [drains[i] EXCEPT !.obs.reply = IF ok THEN "sent" ELSE "failed"]
       IN  HandlerStep(i, IF ok THEN StartForward(f, forwardEnv)
                          ELSE Settle(f, "thrown"))

\* webhook.js:177-188 the template send settles
TemplateSettles(i, ok) ==
    /\ drains[i].pc = "template"
    /\ LET f == drains[i]
           f1 == [f EXCEPT !.obs.tpl =
                     SetLast(@, "result", IF ok THEN "sent" ELSE "failed")]
       IN  HandlerStep(i,
             IF ok THEN ForwardFrom(f1, f1.j + 1)
             ELSE [f1 EXCEPT !.pc = "plain",
                             !.obs.plain = Append(@, [j |-> f1.j,
                                                      to |-> f1.numbers[f1.j],
                                                      result |-> "pending"])])

\* a fallback send without its own try/catch: its failure leaves the handler
PlainSettlesUncaught(i, ok) ==
    /\ drains[i].pc = "plain"
    /\ LET f == drains[i]
           f1 == [f EXCEPT !.obs.plain =
                     SetLast(@, "result", IF ok THEN "sent" ELSE "failed")]
       IN  HandlerStep(i, IF ok THEN ForwardFrom(f1, f1.j + 1)
                          ELSE Settle(f1, "thrown"))

\* webhook.js:188-192 the plain-text fallback send settles
PlainSettles(i, ok) ==
    /\ drains[i].pc = "plain"
    /\ LET f == drains[i]
           f1 == [f EXCEPT !.obs.plain =
                     SetLast(@, "result", IF ok THEN "sent" ELSE "failed")]
       IN  HandlerStep(i, ForwardFrom(f1, f1.j + 1))

\* webhook.js:206-211 the help send settles
HelpSettles(i, ok) ==
    /\ drains[i].pc = "help"
    /\ HandlerStep(i, Settle(drains[i], IF ok THEN "returned" ELSE "thrown"))

\* webhook.js:89-100 processQueue resumes after `await handle...`: the catch
\* block if the handler threw, then the loop again
Resume(i) ==
    /\ drains[i].pc = "settled"
    /\ LET f == drains[i]
           caught == f.outcome = "thrown" /\ CatchBlock(f.outcome) = "continue"
           co1 == Append(completed,
                         [tag |-> f.item.tag,
                          outcome |-> IF caught THEN "caught" ELSE f.outcome])
       IN  IF f.outcome = "thrown" /\ ~caught
           THEN /\ drains' = RemoveAt(drains, i)
                /\ completed' = co1
                /\ UNCHANGED <<messageQueue, processing, started>>
           ELSE LET r == LoopAgain(messageQueue, processing, started, co1)
                IN  /\ messageQueue' = r.q
                    /\ processing' = r.processing
                    /\ started' = r.started
                    /\ completed' = r.completed
                    /\ drains' = IF r.frames = <<>> THEN RemoveAt(drains, i)
                                 ELSE [drains EXCEPT ![i] = r.frames[1]]
    /\ UNCHANGED <<arrived, storeVars, envVars, probe, sseVars, calls>>

\* api.js PATCH /api/settings.  written: whether the file can be written
\* while the request runs.  (What the step adds to calls is said in Next.)
PatchSettings(body, written) ==
    /\ LET r == patchSettings(db, disk, body, 1, written)
       IN  db' = r.db /\ disk' = r.disk
    /\ UNCHANGED <<queueVars, emitted, envVars, probe, sseVars>>

Frames == 1..Len(drains)

Next ==
    \/ \E msg \in WebhookMessages : arrived < MaxArrivals /\ Webhook(msg)
    \/ \E i \in Frames, out \in DownloadOutcomes : DownloadSettles(i, out)
    \/ \E i \in Frames : WaitElapsed(i)
    \/ \E i \in Frames, ok \in BOOLEAN : NoticeSettles(i, ok)
    \/ \E i \in Frames, resp \in QueueWhisperResponses, written \in BOOLEAN :
         WhisperSettles(i, resp, written)
    \/ \E i \in Frames : BackoffElapsed(i)
    \/ \E i \in Frames, ok \in BOOLEAN : ReplySettles(i, ok)
    \/ \E i \in Frames, ok \in BOOLEAN : TemplateSettles(i, ok)
    \/ \E i \in Frames, ok \in BOOLEAN : PlainSettles(i, ok)
    \/ \E i \in Frames, ok \in BOOLEAN : HelpSettles(i, ok)
    \/ \E i \in Frames : Resume(i)
    \/ \E value \in {"true", "false"} :
         /\ PatchSettings(<<[key |-> "auto_reply", value |-> JStr(value)]>>, TRUE)
         /\ UNCHANGED calls

Spec == Init /\ [][Next]_vars

(***************************************************************************)
(* SpecQueue: the same program with more arrivals and fewer kinds of       *)
(* message and of remote outcome, for the properties of the drain loop     *)
(***************************************************************************)
QueueMessages ==
    { m \in WebhookMessages :
        /\ m.from = Phone1 \/ m.type = "image"
        /\ m.type = "text" => IsHelp(NormalizeBody(m.text.body)) }

QueueDownloadOutcomes == { o \in DownloadOutcomes : ~TooLarge(o.size) }

QueueResponses == QueueWhisperResponses

InitQueue == Init /\ forwardEnv = <<>>

NextQueue ==
    \/ \E msg \in QueueMessages : arrived < MaxQueueArrivals /\ Webhook(msg)
    \/ \E i \in Frames, out \in QueueDownloadOutcomes : DownloadSettles(i, out)
    \/ \E i \in Frames : WaitElapsed(i)
    \/ \E i \in Frames, ok \in BOOLEAN : NoticeSettles(i, ok)
    \/ \E i \in Frames, resp \in QueueResponses, written \in BOOLEAN :
         WhisperSettles(i, resp, written)
    \/ \E i \in Frames : BackoffElapsed(i)
    \/ \E i \in Frames, ok \in BOOLEAN : ReplySettles(i, ok)
    \/ \E i \in Frames, ok \in BOOLEAN : HelpSettles(i, ok)
    \/ \E i \in Frames : Resume(i)

SpecQueue == InitQueue /\ [][NextQueue]_vars

(***************************************************************************)
(* SpecWhisper: transcribeAudio called directly, with every size and       *)
(* maxRetries option and every response the remote API can give            *)
(***************************************************************************)
ProbeSizes == {1, MAX_FILE_SIZE, MAX_FILE_SIZE + 1}

\* bound: voice messages SpecWhisper lets arrive when no direct call is made
MaxProbeArrivals == 1

ProbeMessages ==
    { m \in WebhookMessages : m.type = "audio" /\ m.audio.defined /\ m.from = Phone1 }

ProbeDownloadOutcomes == { o \in DownloadOutcomes : o.ok }

\* either transcribeAudio is called directly, or it will be called by
\* handleAudioMessage for a queued voice message
InitWhisper ==
    /\ Init
    /\ forwardEnv = <<>>

ProbeStart(size, maxRetries) ==
    /\ probe = NoCall
    /\ arrived = 0
    /\ probe' = TranscribeStart(size, maxRetries)
    /\ UNCHANGED <<queueVars, storeVars, envVars, sseVars, calls>>

ProbeResponse(resp) ==
    /\ probe # NoCall
    /\ probe.st = "fetch"
    /\ probe' = TranscribeResponse(probe, resp)
    /\ UNCHANGED <<queueVars, storeVars, envVars, sseVars, calls>>

ProbeWake ==
    /\ probe # NoCall
    /\ probe.st = "sleep"
    /\ probe' = TranscribeWake(probe)
    /\ UNCHANGED <<queueVars, storeVars, envVars, sseVars, calls>>

NextWhisper ==
    \/ \E size \in ProbeSizes, maxRetries \in 0..MaxRetriesOption :
         ProbeStart(size, maxRetries)
    \/ \E resp \in WhisperResponses : ProbeResponse(resp)
    \/ ProbeWake
    \/ \E msg \in ProbeMessages :
         probe = NoCall /\ arrived < MaxProbeArrivals /\ Webhook(msg)
    \/ \E i \in Frames, out \in ProbeDownloadOutcomes : DownloadSettles(i, out)
    \/ \E i \in Frames, ok \in BOOLEAN : NoticeSettles(i, ok)
    \/ \E i \in Frames, resp \in WhisperResponses : WhisperSettles(i, resp, TRUE)
    \/ \E i \in Frames : BackoffElapsed(i)
    \/ \E i \in Frames, ok \in BOOLEAN : ReplySettles(i, ok)
    \/ \E i \in Frames : Resume(i)

SpecWhisper == InitWhisper /\ [][NextWhisper]_vars

(***************************************************************************)
(* SpecClock: the queue with a clock that runs between the callbacks       *)
(***************************************************************************)
\* bound: the half seconds SpecClock lets pass
MaxClock == 3

\* bound: voice messages SpecClock lets arrive
MaxClockArrivals == 2

ClockResponses == { r \in QueueWhisperResponses : r.status \in {200, 400} }

\* half a second passes with no callback running
Tick ==
    /\ now < MaxClock * 500
    /\ now' = now + 500
    /\ UNCHANGED <<queueVars, storeVars, forwardEnv, reopens, appSecret, probe,
                   sseVars, calls>>

NextClock ==
    \/ Tick
    \/ \E msg \in ProbeMessages : arrived < MaxClockArrivals /\ Webhook(msg)
    \/ \E i \in Frames, out \in ProbeDownloadOutcomes : DownloadSettles(i, out)
    \/ \E i \in Frames, ok \in BOOLEAN : NoticeSettles(i, ok)
    \/ \E i \in Frames, resp \in ClockResponses : WhisperSettles(i, resp, TRUE)
    \/ \E i \in Frames, ok \in BOOLEAN : ReplySettles(i, ok)
    \/ \E i \in Frames : Resume(i)

SpecClock == InitQueue /\ [][NextClock]_vars

(***************************************************************************)
(* SpecStore: the dashboard API on the store (routes/api.js, the tail of   *)
(* routes/transcribe.js); every snapshot write may fail, and the sql.js    *)
(* build may or may not keep last_insert_rowid() across db.export().       *)
(* SpecStream: records being saved while subscribers of the live-update    *)
(* stream come and go.                                                     *)
(***************************************************************************)
\* bound: the calls on the store that SpecStore makes
MaxStoreCalls == 4

StoreIds == {1, 2}

ManualSender == <<"m", "a", "n", "u", "a", "l">>

UploadResults ==
    { NormalizeResult(j) :
        j \in { w \in WhisperResults : w.language = "hu" /\ w.duration = JNum(7) } }

\* request bodies of PATCH /api/settings: an unknown key only; auto_reply
\* with an unknown key after it and before it; default_language
SettingsBodies ==
    { <<[key |-> "admin", value |-> JStr("x")]>>,
      <<[key |-> "auto_reply", value |-> JBool(FALSE)],
        [key |-> "admin", value |-> JStr("x")]>>,
      <<[key |-> "admin", value |-> JStr("x")],
        [key |-> "auto_reply", value |-> JBool(TRUE)]>>,
      <<[key |-> "default_language", value |-> JStr("hu")]>> }

Logged(entry, rowids, returned) ==
    [n |-> calls.n + 1, last |-> entry,
     assigned |-> calls.assigned \o rowids,
     saved |-> calls.saved + (IF returned THEN 1 ELSE 0)]

InitStore ==
    /\ messageQueue = <<>>
    /\ processing = FALSE
    /\ drains = <<>>
    /\ db = InitialDb
    /\ disk = Snapshot(InitialDb)
    /\ emitted = <<>>
    /\ forwardEnv = <<>>
    /\ arrived = 0
    /\ started = <<>>
    /\ completed = <<>>
    /\ probe = NoCall
    /\ now = 0
    /\ reopens \in BOOLEAN
    /\ sseClients = <<>>
    /\ delivered = [c \in SseClientIds |-> <<>>]
    /\ calls = NoCalls
    /\ appSecret = FALSE

\* transcribe.js:32-50 the save and the response of POST /api/transcribe
SaveUpload(result, written, writes) ==
    LET fields == [id |-> 0,
                   sender |-> ManualSender,
                   sender_name |-> "Kezi feltoltes",
                   timestamp |-> now \div 1000,
                   transcription |-> result.text,
                   language |-> result.language,
                   duration |-> result.duration,
                   source |-> "manual"]
        sv == saveTranscription(db, disk, emitted, fields, written)
    IN  /\ db' = sv.db
        /\ disk' = sv.disk
        /\ emitted' = sv.emitted
        /\ delivered' = Emit(sseClients, delivered, emitted, sv.emitted, writes)
        /\ calls' = Logged([op |-> "save", id |-> sv.id, written |-> written,
                            writes |-> writes, clients |-> sseClients,
                            threw |-> sv.threw,
                            rowid |-> sv.rowid],
                           <<sv.rowid>>, ~sv.threw)
        /\ UNCHANGED <<queueVars, envVars, sseClients>>

\* transcribe.js:32-50 POST /api/transcribe once transcribeAudio has resolved
UploadSaved(result, written, writes) ==
    SaveUpload(result, written, writes) /\ UNCHANGED probe

\* api.js PATCH /api/transcriptions/:id with a string in `transcription`
PatchTranscription(id, text, written) ==
    LET r == updateTranscription(db, disk, id, text, written)
    IN  /\ db' = r.db
        /\ disk' = r.disk
        /\ calls' = Logged([op |-> "update", id |-> id, text |-> text,
                            written |-> written,
                            threw |-> r.threw, ret |-> r.ret], <<>>, FALSE)
        /\ UNCHANGED <<queueVars, emitted, envVars, probe, sseVars>>

\* api.js DELETE /api/transcriptions/:id
DeleteOne(id, written) ==
    LET r == deleteTranscription(db, disk, id, written)
    IN  /\ db' = r.db
        /\ disk' = r.disk
        /\ calls' = Logged([op |-> "delete", id |-> id, written |-> written,
                            threw |-> r.threw, ret |-> r.ret], <<>>, FALSE)
        /\ UNCHANGED <<queueVars, emitted, envVars, probe, sseVars>>

\* api.js DELETE /api/transcriptions
DeleteAll(written) ==
    LET r == deleteAllTranscriptions(db, disk, written)
    IN  /\ db' = r.db
        /\ disk' = r.disk
        /\ calls' = Logged([op |-> "deleteAll", id |-> 0, written |-> written,
                            threw |-> r.threw, ret |-> r.ret], <<>>, FALSE)
        /\ UNCHANGED <<queueVars, emitted, envVars, probe, sseVars>>

\* PATCH /api/settings as a step of SpecStore: it is logged
SettingsPatched(body, written) ==
    /\ PatchSettings(body, written)
    /\ calls' = Logged([op |-> "settings", id |-> 0, written |-> written,
                        body |-> body,
                        threw |-> patchSettings(db, disk, body, 1, written).threw],
                       <<>>, FALSE)

\* api.js GET /api/stream
SseAttach(c) ==
    /\ delivered[c] = <<>>
    /\ delivered' = [delivered EXCEPT ![c] = <<ConnectedEvent>>]
    /\ sseClients' = Append(sseClients, c)
    /\ UNCHANGED <<queueVars, storeVars, envVars, probe, calls>>

\* api.js req.on('close'): sseClients.delete(res)
SseClose(c) ==
    /\ \E k \in 1..Len(sseClients) :
          sseClients[k] = c /\ sseClients' = RemoveAt(sseClients, k)
    /\ UNCHANGED <<queueVars, storeVars, envVars, probe, delivered, calls>>

NextStore ==
    \/ \E result \in UploadResults, written \in BOOLEAN :
         calls.n < MaxStoreCalls /\ UploadSaved(result, written, AllWritesOk)
    \/ \E id \in StoreIds, written \in BOOLEAN :
         calls.n < MaxStoreCalls /\ PatchTranscription(id, "u", written)
    \/ \E id \in StoreIds, written \in BOOLEAN :
         calls.n < MaxStoreCalls /\ DeleteOne(id, written)
    \/ \E written \in BOOLEAN : calls.n < MaxStoreCalls /\ DeleteAll(written)
    \/ \E body \in SettingsBodies, written \in BOOLEAN :
         calls.n < MaxStoreCalls /\ SettingsPatched(body, written)

SpecStore == InitStore /\ [][NextStore]_vars

\* bound: the records SpecStream saves
MaxStreamSaves == 2

NextStream ==
    \/ \E result \in UploadResults, written \in BOOLEAN,
          writes \in [SseClientIds -> BOOLEAN] :
         calls.n < MaxStreamSaves /\ UploadSaved(result, written, writes)
    \/ \E c \in SseClientIds : SseAttach(c)
    \/ \E c \in SseClientIds : SseClose(c)

SpecStream == InitStore /\ [][NextStream]_vars

(***************************************************************************)
(* SpecList: GET /api/transcriptions on databases of several sizes         *)
(***************************************************************************)
\* bound: the rows of the largest database SpecList reads
MaxListRows == 101

ListSizes == {0, 21, PageCap, MaxListRows}

\* bound: the requests SpecList makes on one database (a request changes
\* nothing the next one reads)
MaxListCalls == 1

S_hi == <<"h", "i">>
S_Help == <<"H", "e", "l", "p">>

\* the k-th row of a database that earlier runs have filled
ListRow(k) ==
    [id |-> k,
     sender |-> IF k % 2 = 0 THEN ManualSender ELSE Phone1,
     sender_name |-> IF k % 2 = 0 THEN S_hi ELSE S_Help,
     timestamp |-> 0,
     transcription |-> IF k % 3 = 0 THEN S_Help ELSE S_hi,
     language |-> "hu",
     duration |-> JNum(7),
     source |-> IF k % 2 = 0 THEN "manual" ELSE "whatsapp"]

\* storage.js:354-356 the database read from the file of an earlier run
ListDb(n) ==
    [InitialDb EXCEPT !.rows = [k \in 1..n |-> ListRow(k)], !.seq = n]

\* req.query.page and req.query.limit
PageQueries ==
    { NoParam, Param(<<"1">>), Param(<<"2">>), Param(<<"0">>),
      Param(<<"-", "1">>) }

LimitQueries ==
    { NoParam, Param(<<"0">>), Param(<<"-", "1">>), Param(<<"h", "i">>),
      Param(<<"5">>), Param(<<"1", "0", "0">>), Param(<<"1", "0", "1">>),
      Param(<<" ", "2", "1", "x">>) }

SourceQueries == { NoSource, Param("all"), Param("manual") }

SearchQueries == { NoParam, Param(<<"h", "E">>) }

InitList ==
    /\ messageQueue = <<>>
    /\ processing = FALSE
    /\ drains = <<>>
    /\ \E n \in ListSizes : db = ListDb(n)
    /\ disk = Snapshot(db)
    /\ emitted = <<>>
    /\ forwardEnv = <<>>
    /\ arrived = 0
    /\ started = <<>>
    /\ completed = <<>>
    /\ probe = NoCall
    /\ now = 0
    /\ reopens = TRUE
    /\ sseClients = <<>>
    /\ delivered = [c \in SseClientIds |-> <<>>]
    /\ calls = NoCalls
    /\ appSecret = FALSE

\* api.js:329-342 GET /api/transcriptions; the answer is kept in calls.last
ListRequest(page, limit, source, search) ==
    /\ calls' = [calls EXCEPT !.n = @ + 1, !.last =
                   [op |-> "list", page |-> page, limit |-> limit,
                    source |-> source, search |-> search,
                    body |-> getTranscriptions(db, PageOf(page), LimitOf(limit),
                                               source, search)]]
    /\ UNCHANGED <<queueVars, storeVars, envVars, probe, sseVars>>

NextList ==
    \E page \in PageQueries, limit \in LimitQueries, source \in SourceQueries,
       search \in SearchQueries :
        calls.n < MaxListCalls /\ ListRequest(page, limit, source, search)

SpecList == InitList /\ [][NextList]_vars

(***************************************************************************)
(* SpecIntake: POST /webhook with and without an app secret, with every    *)
(* kind of signature header and with bodies that carry a message or none   *)
(***************************************************************************)
\* bound: the requests SpecIntake posts
MaxIntakeRequests == 3

\* webhook.js:23-26 the length of 'sha256=' and the 64 hex digits of the digest
SignatureLength == 71

\* req.headers['x-hub-signature-256']: its length, and whether it equals the
\* expected value (which only a header of that length can)
NoSignature == [present |-> FALSE, length |-> 0, matches |-> FALSE]

Signatures ==
    { NoSignature,
      [present |-> TRUE, length |-> SignatureLength, matches |-> TRUE],
      [present |-> TRUE, length |-> SignatureLength, matches |-> FALSE],
      [present |-> TRUE, length |-> 10, matches |-> FALSE] }

\* webhook.js:16-32.  crypto.timingSafeEqual throws a RangeError when its two
\* buffers differ in length.
verifySignature(secret, sig) ==
    IF ~secret THEN "true"
    ELSE IF ~sig.present THEN "false"
    ELSE IF sig.length # SignatureLength THEN "throws"
    ELSE IF sig.matches THEN "true" ELSE "false"

\* req.body: a notification without messages (a status update), or with one
NoMessageBody == [hasMessage |-> FALSE]

IntakeMessages ==
    { m \in WebhookMessages :
        \/ m.type = "audio" /\ m.audio.defined /\ m.from = Phone1
        \/ m.type = "text" /\ IsHelp(NormalizeBody(m.text.body))
        \/ m.type = "image" }

IntakeBodies ==
    { NoMessageBody } \cup { [hasMessage |-> TRUE, message |-> m] :
                               m \in IntakeMessages }

IntakeDownloadOutcomes == { o \in DownloadOutcomes : ~o.ok }

InitIntake ==
    /\ messageQueue = <<>>
    /\ processing = FALSE
    /\ drains = <<>>
    /\ db = InitialDb
    /\ disk = Snapshot(InitialDb)
    /\ emitted = <<>>
    /\ forwardEnv = <<>>
    /\ arrived = 0
    /\ started = <<>>
    /\ completed = <<>>
    /\ probe = NoCall
    /\ now = 0
    /\ reopens = TRUE
    /\ sseClients = <<>>
    /\ delivered = [c \in SseClientIds |-> <<>>]
    /\ calls = NoCalls
    /\ appSecret \in BOOLEAN

\* webhook.js:55-76 POST /webhook.  The entry logged holds the status of the
\* answer and, in the order the handler did them, what it did; an exception
\* leaving the handler is answered 500 by the framework.
WebhookRequest(sig, body) ==
    LET v == verifySignature(appSecret, sig)
        entry(status, trace) ==
            [op |-> "webhook", sig |-> sig, body |-> body, status |-> status,
             trace |-> trace]
    IN  IF v = "throws"
        THEN /\ calls' = Logged(entry(500, <<>>), <<>>, FALSE)
             /\ UNCHANGED <<queueVars, storeVars, envVars, probe, sseVars>>
        ELSE IF v = "false"
        THEN /\ calls' = Logged(entry(403, <<"send403">>), <<>>, FALSE)
             /\ UNCHANGED <<queueVars, storeVars, envVars, probe, sseVars>>
        ELSE IF body.hasMessage
        THEN /\ calls' = Logged(entry(200, <<"send200", "push", "processQueue">>),
                                <<>>, FALSE)
             /\ Enqueue(body.message)
        ELSE /\ calls' = Logged(entry(200, <<"send200">>), <<>>, FALSE)
             /\ UNCHANGED <<queueVars, storeVars, envVars, probe, sseVars>>

NextIntake ==
    \/ \E sig \in Signatures, body \in IntakeBodies :
         calls.n < MaxIntakeRequests /\ WebhookRequest(sig, body)
    \/ \E i \in Frames, out \in IntakeDownloadOutcomes : DownloadSettles(i, out)
    \/ \E i \in Frames : WaitElapsed(i)
    \/ \E i \in Frames, ok \in BOOLEAN : NoticeSettles(i, ok)
    \/ \E i \in Frames, ok \in BOOLEAN : HelpSettles(i, ok)
    \/ \E i \in Frames : Resume(i)

SpecIntake == InitIntake /\ [][NextIntake]_vars

(***************************************************************************)
(* SpecReply: voice messages of one sender with every outcome of the       *)
(* download, while the auto_reply setting is set to several values         *)
(***************************************************************************)
\* bound: voice messages SpecReply lets arrive
MaxReplyArrivals == 2

\* values a PATCH /api/settings gives auto_reply
AutoReplyValues ==
    { JBool(TRUE), JBool(FALSE), JStr("TRUE"), JStr("1"), JStr("") }

NextReply ==
    \/ \E msg \in ProbeMessages : arrived < MaxReplyArrivals /\ Webhook(msg)
    \/ \E i \in Frames, out \in DownloadOutcomes : DownloadSettles(i, out)
    \/ \E i \in Frames : WaitElapsed(i)
    \/ \E i \in Frames, ok \in BOOLEAN : NoticeSettles(i, ok)
    \/ \E i \in Frames, resp \in ClockResponses, written \in BOOLEAN :
         WhisperSettles(i, resp, written)
    \/ \E i \in Frames, ok \in BOOLEAN : ReplySettles(i, ok)
    \/ \E i \in Frames : Resume(i)
    \/ \E value \in AutoReplyValues :
         /\ PatchSettings(<<[key |-> "auto_reply", value |-> value]>>, TRUE)
         /\ UNCHANGED calls

SpecReply == InitQueue /\ [][NextReply]_vars

(***************************************************************************)
(* SpecDispatch: texts of several bodies, another type of message and a    *)
(* voice message going through the queue                                   *)
(***************************************************************************)
\* bound: webhook requests carrying a message that SpecDispatch lets arrive
MaxDispatchArrivals == 3

\* message.text.body
DispatchBodies ==
    TextBodies \cup
    { <<"H", "E", "L", "P", " ">>,
      <<"h", "e", "l", "p", "s">>,
      <<"s", "e", "g", "i", "t", "s", "e", "g">>,
      <<>> }

DispatchMessages ==
    { [type |-> "text", from |-> Phone1, audio |-> NoAudio,
       text |-> [defined |-> TRUE, body |-> b]] : b \in DispatchBodies }
    \cup { m \in WebhookMessages :
             \/ m.type = "image"
             \/ m.type = "audio" /\ m.audio.defined /\ m.from = Phone1 }

DispatchDownloadOutcomes == { o \in DownloadOutcomes : o.ok /\ ~TooLarge(o.size) }

NextDispatch ==
    \/ \E msg \in DispatchMessages : arrived < MaxDispatchArrivals /\ Webhook(msg)
    \/ \E i \in Frames, out \in DispatchDownloadOutcomes : DownloadSettles(i, out)
    \/ \E i \in Frames, resp \in ClockResponses : WhisperSettles(i, resp, TRUE)
    \/ \E i \in Frames, ok \in BOOLEAN : ReplySettles(i, ok)
    \/ \E i \in Frames, ok \in BOOLEAN : HelpSettles(i, ok)
    \/ \E i \in Frames : Resume(i)

SpecDispatch == InitQueue /\ [][NextDispatch]_vars

(***************************************************************************)
(* SpecDuration: voice messages with and without a duration of their own,  *)
(* transcribed with and without a duration in the result                   *)
(***************************************************************************)
\* bound: voice messages SpecDuration lets arrive
MaxDurationArrivals == 2

\* message.audio.duration
DurationMessages ==
    { [type |-> "audio", from |-> Phone1, text |-> NoText,
       audio |-> [defined |-> TRUE, duration |-> d]] : d \in {JNull, JNum(5)} }

\* result.duration of the transcription API: missing, 0, 7
DurationResponses ==
    { [kind |-> "ok", status |-> 200, body |-> <<>>,
       json |-> [text |-> "t", language |-> "hu", duration |-> d]] :
        d \in {JNull, JNum(0), JNum(7)} }
    \cup { r \in QueueWhisperResponses : r.status = 400 }

NextDuration ==
    \/ \E msg \in DurationMessages : arrived < MaxDurationArrivals /\ Webhook(msg)
    \/ \E i \in Frames, out \in DispatchDownloadOutcomes : DownloadSettles(i, out)
    \/ \E i \in Frames, resp \in DurationResponses : WhisperSettles(i, resp, TRUE)
    \/ \E i \in Frames, ok \in BOOLEAN : ReplySettles(i, ok)
    \/ \E i \in Frames : Resume(i)

SpecDuration == InitQueue /\ [][NextDuration]_vars

(***************************************************************************)
(* SpecSeed: the server is started, settings are updated, and the server   *)
(* is started again from the file it left                                  *)
(***************************************************************************)
\* bound: the settings updates and the restarts of SpecSeed
MaxSeedCalls == 4

\* the file found at the first start: none, the file of a run that had
\* switched auto_reply off, and a file whose settings table holds auto_reply
\* only, with an empty value
SeedFiles ==
    { NoFile,
      File([rows |-> <<>>, seq |-> 0,
            settings |-> [k \in SettingKeys |->
                            IF k = "auto_reply" THEN "false" ELSE "auto"]]),
      File([rows |-> <<>>, seq |-> 0,
            settings |-> [k \in {"auto_reply"} |-> ""]]) }

\* server.js start(): initDatabase() has run and written its snapshot
InitSeed ==
    /\ messageQueue = <<>>
    /\ processing = FALSE
    /\ drains = <<>>
    /\ \E file \in SeedFiles :
          /\ db = initDatabase(file)
          /\ calls = [NoCalls EXCEPT !.last = [op |-> "init", file |-> file]]
    /\ disk = Snapshot(db)
    /\ emitted = <<>>
    /\ forwardEnv = <<>>
    /\ arrived = 0
    /\ started = <<>>
    /\ completed = <<>>
    /\ probe = NoCall
    /\ now = 0
    /\ reopens = TRUE
    /\ sseClients = <<>>
    /\ delivered = [c \in SseClientIds |-> <<>>]
    /\ appSecret = FALSE

\* the process ends and server.js start() runs again: the queue, the flag
\* and the subscribers are gone, the database is read from the file, seeded
\* and written (storage.js:347-398).  A start whose write fails ends the
\* process with the file as it was, and the next start finds the same file.
Restart ==
    /\ messageQueue' = <<>>
    /\ processing' = FALSE
    /\ drains' = <<>>
    /\ sseClients' = <<>>
    /\ db' = initDatabase(File(disk))
    /\ disk' = Snapshot(db')
    /\ calls' = Logged([op |-> "restart", file |-> File(disk), memory |-> db],
                       <<>>, FALSE)
    /\ UNCHANGED <<arrived, started, completed, emitted, envVars, probe,
                   delivered>>

NextSeed ==
    \/ \E body \in SettingsBodies, written \in BOOLEAN :
         calls.n < MaxSeedCalls /\ SettingsPatched(body, written)
    \/ calls.n < MaxSeedCalls /\ Restart

SpecSeed == InitSeed /\ [][NextSeed]_vars

(***************************************************************************)
(* SpecUpload: manual uploads (routes/transcribe.js) while the queue works *)
(***************************************************************************)
\* bound: the uploads of SpecUpload
MaxUploads == 2

\* bound: voice messages SpecUpload lets arrive
MaxUploadArrivals == 2

\* transcribe.js:17-29 POST /api/transcribe with a file: transcribeAudio is
\* called with the default options and the handler waits for it.  `probe` is
\* that call.
UploadReceived(size) ==
    /\ probe = NoCall
    /\ probe' = TranscribeStart(size, DefaultMaxRetries)
    /\ UNCHANGED <<queueVars, storeVars, envVars, sseVars, calls>>

\* transcribe.js:29-54 the remote exchange of the upload settles: with a
\* result the record is saved and the response sent, with an error 500 is
\* answered
UploadSettles(resp, written) ==
    /\ probe # NoCall
    /\ probe.st = "fetch"
    /\ LET call == TranscribeResponse(probe, resp)
       IN  CASE call.st = "returned" ->
                  /\ SaveUpload(call.result, written, AllWritesOk)
                  /\ probe' = NoCall
             [] call.st = "thrown" ->
                  /\ written
                  /\ probe' = NoCall
                  /\ calls' = Logged([op |-> "failed"], <<>>, FALSE)
                  /\ UNCHANGED <<queueVars, storeVars, envVars, sseVars>>
             [] OTHER ->
                  /\ written
                  /\ probe' = call
                  /\ UNCHANGED <<queueVars, storeVars, envVars, sseVars, calls>>

\* whisper.js:92 the backoff timer of the upload's call fires
UploadWake ==
    /\ probe # NoCall
    /\ probe.st = "sleep"
    /\ LET call == TranscribeWake(probe)
       IN  IF call.st = "thrown"
           THEN /\ probe' = NoCall
                /\ calls' = Logged([op |-> "failed"], <<>>, FALSE)
           ELSE /\ probe' = call
                /\ UNCHANGED calls
    /\ UNCHANGED <<queueVars, storeVars, envVars, sseVars>>

NextUpload ==
    \/ calls.n < MaxUploads /\ UploadReceived(1)
    \/ \E resp \in QueueWhisperResponses : UploadSettles(resp, TRUE)
    \/ UploadWake
    \/ \E msg \in ProbeMessages : arrived < MaxUploadArrivals /\ Webhook(msg)
    \/ \E i \in Frames, out \in DispatchDownloadOutcomes : DownloadSettles(i, out)
    \/ \E i \in Frames, resp \in ClockResponses : WhisperSettles(i, resp, TRUE)
    \/ \E i \in Frames, ok \in BOOLEAN : ReplySettles(i, ok)
    \/ \E i \in Frames : Resume(i)

SpecUpload == InitStore /\ [][NextUpload]_vars

(***************************************************************************)
(* SpecLive: the queue when every remote call and every timer comes back   *)
(***************************************************************************)
\* bound: messages SpecLive lets arrive
MaxLiveArrivals == 2

\* a voice message, a help request and a message of another type
LiveMessages ==
    { m \in QueueMessages : m.type = "audio" => m.audio.defined }

\* FORWARD_TO_NUMBERS names the sender and one other number
InitLive == Init /\ forwardEnv = <<"1", ",", " ", "2", ",">>

\* what the event loop runs once a promise has settled or a timer has fired,
\* await by await
DownloadReturns ==
    \E i \in Frames, out \in QueueDownloadOutcomes : DownloadSettles(i, out)
WaitReturns == \E i \in Frames : WaitElapsed(i)
NoticeReturns == \E i \in Frames, ok \in BOOLEAN : NoticeSettles(i, ok)
WhisperReturns ==
    \E i \in Frames, resp \in QueueResponses, written \in BOOLEAN :
        WhisperSettles(i, resp, written)
BackoffReturns == \E i \in Frames : BackoffElapsed(i)
ReplyReturns == \E i \in Frames, ok \in BOOLEAN : ReplySettles(i, ok)
TemplateReturns == \E i \in Frames, ok \in BOOLEAN : TemplateSettles(i, ok)
PlainReturns == \E i \in Frames, ok \in BOOLEAN : PlainSettles(i, ok)
HelpReturns == \E i \in Frames, ok \in BOOLEAN : HelpSettles(i, ok)
LoopResumes == \E i \in Frames : Resume(i)

NextLive ==
    \/ \E msg \in LiveMessages : arrived < MaxLiveArrivals /\ Webhook(msg)
    \/ DownloadReturns
    \/ WaitReturns
    \/ NoticeReturns
    \/ WhisperReturns
    \/ BackoffReturns
    \/ ReplyReturns
    \/ TemplateReturns
    \/ PlainReturns
    \/ HelpReturns
    \/ LoopResumes

\* Requests may stop arriving at any time.  Every remote call comes back,
\* with a result or with an error, every timer fires, and the event loop
\* runs the continuation of a settled promise: weak fairness of each await.
\* (Which way a call comes back is not constrained.)
Fairness ==
    /\ WF_vars(DownloadReturns)
    /\ WF_vars(WaitReturns)
    /\ WF_vars(NoticeReturns)
    /\ WF_vars(WhisperReturns)
    /\ WF_vars(BackoffReturns)
    /\ WF_vars(ReplyReturns)
    /\ WF_vars(TemplateReturns)
    /\ WF_vars(PlainReturns)
    /\ WF_vars(HelpReturns)
    /\ WF_vars(LoopResumes)

SpecLive == InitLive /\ [][NextLive]_vars /\ Fairness

(***************************************************************************)
(* SpecPoint: settings are updated while the worker waits for a download   *)
(* or for a transcription                                                  *)
(***************************************************************************)
\* bound: voice messages SpecPoint lets arrive
MaxPointArrivals == 2

\* bound: the settings updates of SpecPoint
MaxPointPatches == 2

\* request bodies of PATCH /api/settings: auto_reply off and on,
\* default_language hu and auto
PointBodies ==
    { <<[key |-> "auto_reply", value |-> JBool(b)]>> : b \in BOOLEAN }
    \cup { <<[key |-> "default_language", value |-> JStr(l)]>> : l \in {"hu", "auto"} }

\* the handler of some item waits for a download, for the delay before the
\* second download, or for the transcription
Waiting ==
    \E i \in Frames : drains[i].pc \in {"download1", "wait", "download2", "transcribe"}

NextPoint ==
    \/ \E msg \in ProbeMessages : arrived < MaxPointArrivals /\ Webhook(msg)
    \/ \E i \in Frames, out \in QueueDownloadOutcomes : DownloadSettles(i, out)
    \/ \E i \in Frames : WaitElapsed(i)
    \/ \E i \in Frames, ok \in BOOLEAN : NoticeSettles(i, ok)
    \/ \E i \in Frames, resp \in ClockResponses : WhisperSettles(i, resp, TRUE)
    \/ \E i \in Frames, ok \in BOOLEAN : ReplySettles(i, ok)
    \/ \E i \in Frames : Resume(i)
    \/ \E body \in PointBodies :
         Waiting /\ calls.n < MaxPointPatches /\ SettingsPatched(body, TRUE)

SpecPoint == InitQueue /\ [][NextPoint]_vars

\* every transcribeAudio call there is: the direct one and those of the frames
Calls ==
    { c \in {probe} \cup { drains[i].call : i \in 1..Len(drains) } : c # NoCall }

(***************************************************************************)
(* The sequential queue (SpecQueue)                                        *)
(***************************************************************************)
Tags(log) == [k \in 1..Len(log) |-> log[k].tag]

\* C1: items are dequeued, and their processing ends, in the order they were
\* pushed (tags number the pushes): nothing is reordered and nothing skipped;
\* what has not been dequeued yet waits in the queue in push order.
FifoOrder ==
    /\ \A k \in 1..Len(started) : started[k] = k
    /\ \A k \in 1..Len(completed) : completed[k].tag = k
    /\ \A k \in 1..Len(messageQueue) : messageQueue[k].tag = Len(started) + k
    /\ Len(started) + Len(messageQueue) = arrived
    /\ Len(completed) <= Len(started)
    /\ Len(started) <= Len(completed) + 1

\* two items wait behind a third while earlier ones have been processed
FifoOrderWitness ==
    /\ Len(messageQueue) >= 2
    /\ Len(completed) >= 1
    /\ Len(drains) = 1

\* C2: at most one drain loop exists and at most one handler is running,
\* whatever arrives while the loop is suspended; a loop exists only while the
\* flag is set.
AtMostOneInFlight ==
    /\ Len(drains) <= 1
    /\ Cardinality({ i \in 1..Len(drains) : drains[i].pc # "settled" }) <= 1
    /\ drains # <<>> => processing

\* a request arrived while the loop was suspended at an await of a handler
AtMostOneInFlightWitness ==
    /\ Len(drains) = 1
    /\ drains[1].pc \notin {"settled"}
    /\ \E k \in 1..Len(messageQueue) : messageQueue[k].waited

\* C3: no item is stranded: when no drain loop is running, or the flag is
\* reset, the queue is empty.
NoStranded ==
    (drains = <<>> \/ ~processing) => messageQueue = <<>>

\* an item pushed while the loop was draining has been dequeued by that loop
NoStrandedWitness ==
    \E i \in 1..Len(drains) : drains[i].item.waited

\* C4 (state part): when no drain loop is running the flag is reset, the queue
\* is empty and every item that arrived has been processed.
QuiescentAllDone ==
    drains = <<>> =>
        /\ ~processing
        /\ messageQueue = <<>>
        /\ Len(completed) = arrived

\* C4 (step part): the step that ends an item whose handler threw leaves the
\* queue, the flag, the loop and the store exactly as the step that ends an
\* item whose handler returned.
CaughtLikeReturned ==
    \A i \in 1..Len(drains) :
        (/\ drains[i].pc = "settled"
         /\ drains[i].outcome = "thrown"
         /\ completed' # completed)
        => LET r == DrainLoop(messageQueue, processing, started,
                              Append(completed, [tag |-> drains[i].item.tag,
                                                 outcome |-> "returned"]))
           IN  /\ messageQueue' = r.q
               /\ processing' = r.processing
               /\ started' = r.started
               /\ Tags(completed') = Tags(r.completed)
               /\ drains' = IF r.frames = <<>> THEN RemoveAt(drains, i)
                            ELSE [drains EXCEPT ![i] = r.frames[1]]
               /\ UNCHANGED storeVars

\* C4: a failure of one item is caught in the loop, the loop goes on with the
\* next item and resets the flag when the queue is empty.
FailureIsolation == []QuiescentAllDone /\ [][CaughtLikeReturned]_vars

\* a handler threw, the next item was processed normally, the loop has ended
FailureIsolationWitness ==
    /\ ~processing
    /\ \E k \in 1..(Len(completed) - 1) :
          /\ completed[k].outcome = "caught"
          /\ completed[k + 1].outcome = "returned"

(***************************************************************************)
(* The audio procedure (Spec)                                              *)
(***************************************************************************)
Range(seq) == { seq[k] : k \in 1..Len(seq) }

MiB25 == 25 * 1024 * 1024

Ended(f) == f.pc = "settled"

FirstDownloadFailed(f) ==
    Len(f.obs.downloads) >= 1 /\ f.obs.downloads[1].result = "failed"

\* C5 as stated: after a failed first download there are exactly two
\* attempts with one 2000 ms wait; two failures give exactly one notice and no
\* record; a failure and a success give exactly one persisted record and no
\* notice.
DownloadRetryAsStated ==
    \A i \in 1..Len(drains) :
        LET f == drains[i]
            o == f.obs
        IN  (Ended(f) /\ FirstDownloadFailed(f)) =>
              /\ Len(o.downloads) = 2
              /\ o.waits = <<2000>>
              /\ o.downloads[2].result = "failed" =>
                    Len(o.notices) = 1 /\ o.inserted = <<>>
              /\ o.downloads[2].result = "ok" =>
                    Len(o.persisted) = 1 /\ o.notices = <<>>

\* C5 (amended): never more than two download attempts, the second only
\* after a failed first one and one wait of 2000 ms; after two failures exactly
\* one notice (the download notice) and no record; after a failure and a
\* success no download notice, and one record exactly when the audio is at
\* most 25 MiB and the transcription returned (it is persisted unless the
\* snapshot write failed); audio over 25 MiB gets the too-large notice.
DownloadRetry ==
    \A i \in 1..Len(drains) :
        LET f == drains[i]
            o == f.obs
        IN  /\ Len(o.downloads) <= 2
            /\ Len(o.downloads) = 2 =>
                  o.downloads[1].result = "failed" /\ o.waits = <<2000>>
            /\ (Ended(f) /\ FirstDownloadFailed(f)) =>
                  /\ Len(o.downloads) = 2
                  /\ o.downloads[2].result = "failed" =>
                        /\ o.notices = <<"download">>
                        /\ o.inserted = <<>>
                        /\ o.persisted = <<>>
                  /\ o.downloads[2].result = "ok" =>
                        /\ o.notices = IF f.size > MiB25 THEN <<"tooLarge">>
                                       ELSE <<>>
                        /\ Len(o.inserted) =
                              IF f.size <= MiB25 /\ f.call.st = "returned"
                              THEN 1 ELSE 0
                        /\ o.persisted \in {<<>>, o.inserted}

\* the first download failed, the second succeeded, one record was persisted
DownloadRetryWitness ==
    \E i \in 1..Len(drains) :
        /\ Ended(drains[i])
        /\ FirstDownloadFailed(drains[i])
        /\ drains[i].obs.downloads[2].result = "ok"
        /\ Len(drains[i].obs.persisted) = 1

\* the entries of the destination list, written out for each configuration
ExpectedNumbers(env) ==
    CASE env = <<>> -> <<>>
      [] env = <<"1", ",", " ", "2", ",">> -> <<Phone1, Phone2>>
      [] env = <<"2", ",", "2">> -> <<Phone2, Phone2>>

ForwardedAsListed(f) ==
    LET N == ExpectedNumbers(forwardEnv)
        o == f.obs
        dest == { j \in 1..Len(N) : N[j] # f.item.senderPhone }
        failed == { t.j : t \in { u \in Range(o.tpl) : u.result = "failed" } }
    IN  /\ { t.j : t \in Range(o.tpl) } = dest
        /\ Len(o.tpl) = Cardinality(dest)
        /\ \A t \in Range(o.tpl) : t.to = N[t.j] /\ t.to # f.item.senderPhone
        /\ { t.j : t \in Range(o.plain) } = failed
        /\ Len(o.plain) = Cardinality(failed)
        /\ \A t \in Range(o.plain) : t.to = N[t.j]

BothFailed(f) ==
    { p.j : p \in { u \in Range(f.obs.plain) : u.result = "failed" } }

\* the row the handler of f inserted is in the store as it was written
RecordIntact(f, d) ==
    \A k \in 1..Len(f.obs.inserted) :
        LET rec == getTranscription(d, f.obs.inserted[k])
        IN  /\ rec # <<>>
            /\ rec[1].sender = f.item.senderPhone
            /\ rec[1].transcription = f.transcription.text
            /\ rec[1].language = f.transcription.language

\* C11 (state part): once the forward loop has been entered the handler can
\* only return; when it has ended after a destination failed for both sends,
\* every entry of the list that is not the sender has had its template send
\* (the later ones included), and the record is in memory and on disk as it
\* was written.
ForwardFailureContained ==
    \A i \in 1..Len(drains) :
        LET f == drains[i]
        IN  /\ (f.obs.tpl # <<>> /\ Ended(f)) => f.outcome = "returned"
            /\ BothFailed(f) # {} =>
                  /\ RecordIntact(f, db)
                  /\ RecordIntact(f, disk)
                  /\ Ended(f) => ForwardedAsListed(f)

\* C11 (step part): a step of a handler inside its forward loop leaves the
\* store as it is.
ForwardLeavesStore ==
    \A i \in 1..Len(drains) :
        (/\ drains[i].pc \in {"template", "plain"}
         /\ Len(drains') >= i
         /\ drains'[i] # drains[i])
        => UNCHANGED storeVars

\* C11: forwarding failures are contained.
ForwardContained == []ForwardFailureContained /\ [][ForwardLeavesStore]_vars

\* both sends to the first of two destinations failed; the second destination
\* had its template send and the handler returned
ForwardContainedWitness ==
    \E i \in 1..Len(drains) :
        LET f == drains[i]
        IN  /\ Ended(f) /\ f.outcome = "returned"
            /\ Len(f.obs.tpl) = 2
            /\ 1 \in BothFailed(f)
            /\ f.obs.tpl[2].j = 2 /\ f.obs.tpl[2].result # "pending"

TranscriptionFailed(f) == f.call # NoCall /\ f.call.st = "thrown"

\* C19 (state part): an item whose transcription call has failed has no
\* row, no notice, no reply, no template or plain-text send, and its handler
\* has ended by throwing.
FailedTranscriptionSilent ==
    \A i \in 1..Len(drains) :
        LET f == drains[i]
            o == f.obs
        IN  TranscriptionFailed(f) =>
              /\ Ended(f) /\ f.outcome = "thrown"
              /\ o.inserted = <<>> /\ o.persisted = <<>>
              /\ o.notices = <<>> /\ o.replies = 0 /\ o.help = 0
              /\ o.tpl = <<>> /\ o.plain = <<>>

\* C19 (step part): the step that follows such a failure logs the item as
\* caught, leaves the store alone and goes on: the head of the queue is
\* dequeued by the same loop (which ends only with the queue empty), or the
\* queue is empty and the flag is reset.
FailedTranscriptionProceeds ==
    \A i \in 1..Len(drains) :
        (TranscriptionFailed(drains[i]) /\ completed' # completed) =>
            /\ completed'[Len(completed) + 1] =
                  [tag |-> drains[i].item.tag, outcome |-> "caught"]
            /\ UNCHANGED storeVars
            /\ IF messageQueue # <<>>
               THEN /\ started'[Len(started) + 1] = Head(messageQueue).tag
                    /\ processing' <=> Len(drains') = Len(drains)
                    /\ ~processing' => messageQueue' = <<>>
               ELSE /\ started' = started
                    /\ ~processing'
                    /\ drains' = RemoveAt(drains, i)

\* C19: a transcription failure creates no record, sends nothing to anyone,
\* and the drain loop goes on with the next item.
FailedTranscription ==
    []FailedTranscriptionSilent /\ [][FailedTranscriptionProceeds]_vars

\* the third attempt of a call failed as the first two did (retries
\* exhausted) while the next item is waiting in the queue
FailedTranscriptionWitness ==
    \E i \in 1..Len(drains) :
        /\ TranscriptionFailed(drains[i])
        /\ drains[i].call.attempts = DefaultMaxRetries
        /\ messageQueue # <<>>

(***************************************************************************)
(* The Whisper client (SpecWhisper)                                        *)
(***************************************************************************)
Min(a, b) == IF a <= b THEN a ELSE b
Max(a, b) == IF a >= b THEN a ELSE b

\* C6: audio over 25 MiB causes no remote transcription call and no record:
\* handleAudioMessage ends before it calls transcribeAudio, and a
\* transcribeAudio call given such audio throws before its first remote call;
\* audio of exactly 25 MiB is passed to transcribeAudio, which makes a call.
SizeLimit ==
    /\ \A c \in Calls :
          /\ c.size > MiB25 =>
                c.st = "thrown" /\ c.attempts = 0 /\ c.seen = <<>> /\ ~c.error.isNull
          /\ (c.size <= MiB25 /\ c.maxRetries >= 1) => c.attempts >= 1
    /\ \A i \in 1..Len(drains) :
          LET f == drains[i]
          IN  /\ f.size > MiB25 =>
                    /\ f.call = NoCall
                    /\ f.obs.transcribeCalls = 0
                    /\ f.obs.inserted = <<>>
                    /\ f.pc \in {"noticeTooLarge", "settled"}
              /\ f.size = MiB25 =>
                    f.obs.transcribeCalls = 1 /\ f.call.attempts >= 1

\* a voice message of more than 25 MiB has been turned away
SizeLimitWitness ==
    \E i \in 1..Len(drains) :
        drains[i].size = MiB25 + 1 /\ Ended(drains[i])

ListedRetryable == {"retryable", "transport"}

\* the index of the first successful attempt; beyond every count if none
FirstSuccess(c) ==
    IF \E k \in 1..Len(c.seen) : c.seen[k] = "ok"
    THEN CHOOSE k \in 1..Len(c.seen) :
            c.seen[k] = "ok" /\ \A m \in 1..(k - 1) : c.seen[m] # "ok"
    ELSE Len(c.seen) + Max(c.maxRetries, 0) + 1

Finished(c) == c.st \in {"returned", "thrown"}

\* C7: a finished call whose failures were all 429, 500, 502, 503 or a
\* failed fetch has made exactly min(k, maxRetries) remote attempts, k the
\* index of the first success; no call ever makes more than maxRetries.
RetryCount ==
    \A c \in Calls :
        /\ c.attempts <= Max(c.maxRetries, 0)
        /\ (/\ Finished(c)
            /\ c.size <= MiB25
            /\ \A k \in 1..Len(c.seen) : c.seen[k] \in ListedRetryable \cup {"ok"})
           => c.attempts = Min(FirstSuccess(c), c.maxRetries)

\* maxRetries = 3 and three retryable failures: three attempts, then failure
RetryCountWitness ==
    /\ probe # NoCall
    /\ probe.maxRetries = 3
    /\ probe.st = "thrown"
    /\ probe.attempts = 3
    /\ \A k \in 1..Len(probe.seen) : probe.seen[k] \in ListedRetryable

\* C8: after a 4xx status other than 429 on the first attempt, whatever the
\* error body, the call has failed with exactly one attempt and no wait.
ClientErrorNotRetried ==
    \A c \in Calls :
        (c.seen # <<>> /\ c.seen[1] = "client")
            => c.st = "thrown" /\ c.attempts = 1 /\ c.waits = <<>>

LastErrorRaised ==
    \A c \in Calls :
        (c.st = "thrown" /\ c.size <= MiB25) =>
            /\ c.attempts >= 1
            /\ c.lastResp.kind \notin {"none", "ok"}
            /\ ~c.error.isNull
            /\ c.error = AttemptError(c.lastResp)

(***************************************************************************)
(* The store behind the dashboard API (SpecStore)                          *)
(***************************************************************************)
\* the step is a call on the store of kind op
StoreCall(op) == calls'.n = calls.n + 1 /\ calls'.last.op = op

BodyKeys(body) == { body[k].key : k \in 1..Len(body) }

\* the value the body gives key (the last one, should it name the key twice)
BodyValue(body, key) ==
    LET ks == { k \in 1..Len(body) : body[k].key = key }
    IN  StringOf(body[CHOOSE k \in ks : \A m \in ks : m <= k].value)

\* C12 (step part): a settings update changes no setting but those its body
\* names among auto_reply and default_language; a body of unknown keys only
\* leaves memory and disk as they are; auto_reply next to an unknown key is
\* set to the string of its value and nothing else changes.
SettingsUpdateFrame ==
    StoreCall("settings") =>
        LET body == calls'.last.body
            named == BodyKeys(body) \cap {"auto_reply", "default_language"}
        IN  /\ DOMAIN db'.settings = DOMAIN db.settings
            /\ \A k \in DOMAIN db.settings \ named :
                  db'.settings[k] = db.settings[k]
            /\ named = {} => Snapshot(db') = Snapshot(db) /\ disk' = disk
            /\ \A k \in named : db'.settings[k] = BodyValue(body, k)
            /\ db'.rows = db.rows

\* C12 (state part): the settings table holds the two keys of the allow-list
\* and no other, in memory and on disk.
SettingsKeysAllowed ==
    /\ DOMAIN db.settings = {"auto_reply", "default_language"}
    /\ DOMAIN disk.settings = {"auto_reply", "default_language"}

\* C12: the settings allow-list.
SettingsAllowList == []SettingsKeysAllowed /\ [][SettingsUpdateFrame]_vars

\* auto_reply: false was sent together with an unknown key, and stored
SettingsAllowListWitness ==
    /\ calls.last.op = "settings"
    /\ BodyKeys(calls.last.body) = {"auto_reply", "admin"}
    /\ db.settings["auto_reply"] = "false"
    /\ disk.settings["auto_reply"] = "false"

\* C13: a delete of an id that is not in the table (it was deleted, or never
\* given) returns false without throwing and leaves memory, disk and the
\* emitted events as they are, every time; an update of such an id returns
\* false and every row reads as before.
AbsentIdNoOp ==
    /\ StoreCall("delete") /\ ~HasId(db, calls'.last.id) =>
          /\ ~calls'.last.threw /\ calls'.last.ret = FALSE
          /\ db' = db /\ disk' = disk /\ emitted' = emitted
    /\ StoreCall("update") /\ ~HasId(db, calls'.last.id) =>
          /\ ~calls'.last.threw /\ calls'.last.ret = FALSE
          /\ \A id \in 1..db.seq :
                getTranscription(db', id) = getTranscription(db, id)
          /\ disk' = disk

AbsentIdIsNoOp == [][AbsentIdNoOp]_vars

\* a delete of an id that had been given to a row and was deleted before
AbsentIdIsNoOpWitness ==
    /\ calls.last.op = "delete"
    /\ calls.last.ret = FALSE
    /\ calls.last.id \in Range(calls.assigned)
    /\ calls.n >= 3
    /\ db.rows # <<>>

MutatingOps == {"save", "update", "delete", "deleteAll", "settings"}

\* C14: at the return of every call of a mutating operation the file holds
\* the complete in-memory state.
SnapshotAfterReturn ==
    (/\ calls'.n = calls.n + 1
     /\ calls'.last.op \in MutatingOps
     /\ ~calls'.last.threw)
    => disk' = Snapshot(db')

SnapshotConsistency == [][SnapshotAfterReturn]_vars

\* C15: every record a reader can get (by id, in the list, in the
\* export, in the count of getStats) has been written to the file.
VisibleOnlyPersisted ==
    /\ \A r \in exportAll(db) : HasId(disk, r.id)
    /\ \A id \in 1..db.seq : getTranscription(db, id) # <<>> => HasId(disk, id)
    /\ totalTranscriptions(db) = Cardinality(RowIds(db) \cap RowIds(disk))

\* C16: a saveTranscription that returned gave back the id of the row it
\* inserted, getTranscription finds the row under it, and the last event
\* emitted carries that row; there are as many events as calls that returned.
SaveReturnsAssignedId ==
    /\ Len(emitted) = calls.saved
    /\ (calls.last.op = "save" /\ ~calls.last.threw) =>
          /\ calls.last.id = calls.last.rowid
          /\ getTranscription(db, calls.last.id) # <<>>
          /\ emitted # <<>>
          /\ <<emitted[Len(emitted)]>> = getTranscription(db, calls.last.rowid)

\* C17 (state part): the ids given so far are strictly increasing, the rows
\* of the table have different ids, each among those given.
IdsIncrease ==
    /\ \A a, b \in 1..Len(calls.assigned) :
          a < b => calls.assigned[a] < calls.assigned[b]
    /\ RowIds(db) \subseteq Range(calls.assigned)
    /\ Cardinality(RowIds(db)) = Len(db.rows)

\* C17 (step part): a step gives no row another id: the rows that stay keep
\* their order, their id and all but their text; a row that appears is the
\* last one and has the id just given.
IdsStay ==
    /\ \A r \in exportAll(db') :
          r.id \in RowIds(db) =>
             \E q \in exportAll(db) : q = [r EXCEPT !.transcription = q.transcription]
    /\ \A r \in exportAll(db') :
          r.id \notin RowIds(db) =>
             /\ Len(calls'.assigned) = Len(calls.assigned) + 1
             /\ r.id = calls'.assigned[Len(calls'.assigned)]
             /\ r = db'.rows[Len(db'.rows)]
             /\ \A q \in exportAll(db) : q.id < r.id

\* C17: ids are unique, increasing and never given twice.
UniqueMonotonicIds == []IdsIncrease /\ [][IdsStay]_vars

\* a record created after the record with the largest id had been deleted
UniqueMonotonicIdsWitness ==
    /\ calls.assigned = <<1, 2>>
    /\ RowIds(db) = {2}
    /\ calls.last.op = "save"
    /\ calls.n = 3

\* C28 (step part): an update of an id that is in the table sets the text
\* of the row with that id and nothing else: the rows stay as many and in
\* their order, every other field of that row and every other row is as
\* before, and so are the id sequence, the settings and the events emitted;
\* the file holds the new state or, when it could not be written, the old file.
UpdateFrame ==
    (StoreCall("update") /\ HasId(db, calls'.last.id)) =>
        /\ Len(db'.rows) = Len(db.rows)
        /\ \A k \in 1..Len(db.rows) :
              db'.rows[k] =
                 IF db.rows[k].id = calls'.last.id
                 THEN [db.rows[k] EXCEPT !.transcription = calls'.last.text]
                 ELSE db.rows[k]
        /\ db'.seq = db.seq
        /\ db'.settings = db.settings
        /\ emitted' = emitted
        /\ delivered' = delivered
        /\ disk' = (IF calls'.last.written THEN Snapshot(db') ELSE disk)

\* C28: an update changes the text of one record only.
UpdateChangesTextOnly == [][UpdateFrame]_vars

\* the second of two records has been given a new text
UpdateChangesTextOnlyWitness ==
    /\ calls.last.op = "update"
    /\ calls.last.ret = TRUE
    /\ calls.last.id = 2
    /\ Len(db.rows) = 2
    /\ db.rows[1].transcription = "t"
    /\ db.rows[2].transcription = "u"
    /\ disk.rows = db.rows

\* the settings a start has to come to, given the file it found
SeededFrom(file) ==
    [k \in {"auto_reply", "default_language"} \cup
           (IF file.exists THEN DOMAIN file.snap.settings ELSE {}) |->
        IF file.exists /\ k \in DOMAIN file.snap.settings
        THEN file.snap.settings[k]
        ELSE IF k = "auto_reply" THEN "true" ELSE "auto"]

\* C29 (state part): both keys exist, in memory and in the file; right after
\* a start the settings are those of the file found, with the default for a
\* key the file did not hold.
SeededState ==
    /\ {"auto_reply", "default_language"} \subseteq DOMAIN db.settings
    /\ {"auto_reply", "default_language"} \subseteq DOMAIN disk.settings
    /\ calls.last.op \in {"init", "restart"} =>
          /\ db.settings = SeededFrom(calls.last.file)
          /\ disk.settings = db.settings

\* C29 (step part): a start that follows a settings update that returned
\* finds every value the update set.
SetThenRestart ==
    (/\ StoreCall("restart")
     /\ calls.last.op = "settings"
     /\ ~calls.last.threw)
    => \A k \in BodyKeys(calls.last.body) \cap {"auto_reply", "default_language"} :
          /\ db'.settings[k] = BodyValue(calls.last.body, k)
          /\ disk'.settings[k] = BodyValue(calls.last.body, k)

\* C29: settings are seeded where absent and never overwritten by a start.
SettingsSeeding == []SeededState /\ [][SetThenRestart]_vars

\* the first start found a file without default_language; default_language
\* was then set to hu and auto_reply kept its stored empty value through the
\* restart that followed
SettingsSeedingWitness ==
    /\ calls.last.op = "restart"
    /\ db.settings["default_language"] = "hu"
    /\ db.settings["auto_reply"] = ""
    /\ disk.settings = db.settings

\* a step of POST /api/transcribe: the upload's call or the request log moves
UploadStep == probe' # probe \/ calls' # calls

\* an upload is waiting for its transcription while the queue holds an item
\* whose handler is waiting too
UploadBesideItem ==
    /\ probe # NoCall
    /\ processing
    /\ \E i \in 1..Len(drains) : drains[i].pc = "transcribe"

\* every record on disk has an id of its own and was announced once, in the
\* order of the saves, with the full record; an upload's response carries
\* the id of its record; the records of uploads have source manual
OwnIdOwnNotice ==
    /\ \A j, k \in 1..Len(disk.rows) : j # k => disk.rows[j].id # disk.rows[k].id
    /\ Len(emitted) = Len(disk.rows)
    /\ \A k \in 1..Len(emitted) : k <= Len(disk.rows) => emitted[k] = disk.rows[k]
    /\ (calls.last.op = "save" /\ ~calls.last.threw)
          => /\ calls.last.id = calls.last.rowid
             /\ \E k \in 1..Len(disk.rows) :
                   /\ disk.rows[k].id = calls.last.id
                   /\ disk.rows[k].sender = ManualSender
    /\ \A k \in 1..Len(disk.rows) :
          disk.rows[k].sender = ManualSender <=> disk.rows[k].source = "manual"

\* C30: a manual upload leaves messageQueue and the processing flag alone,
\* and whatever the interleaving of an upload and a queue item, each record
\* gets its own id and its own single notification, the upload's record
\* with source manual.
UploadBypassesQueue ==
    /\ []OwnIdOwnNotice
    /\ [][UploadStep => UNCHANGED <<messageQueue, processing>>]_vars

\* the worker is idle: no drain loop, the flag reset, the queue empty
Idle == drains = <<>> /\ ~processing /\ messageQueue = <<>>

\* every item pushed so far has been dequeued and its processing has ended
AllProcessed ==
    \A t \in 1..arrived :
        /\ t \in Range(started)
        /\ \E k \in 1..Len(completed) : completed[k].tag = t

\* C31: when every remote call and every timed wait comes back, every item
\* that was pushed is eventually dequeued and its processing ends, and once
\* nothing arrives any more the worker is idle, with an empty queue, for
\* good.  (`arrived`, `started` and `completed` only grow, so an item that
\* is processed in the end was processed eventually after its push.)
DrainLoopLiveness == <>[](Idle /\ AllProcessed)

\* the worker is idle again after two items that both had a handler to
\* wait for, one of them a voice message whose record was saved
DrainLoopLivenessWitness ==
    /\ Idle
    /\ arrived >= 2
    /\ Len(completed) = arrived
    /\ completed[1].outcome # "ignored"
    /\ completed[2].outcome # "ignored"
    /\ Len(disk.rows) >= 1

\* the record the handler of f saved is in memory and on disk
RecordKept(f) ==
    /\ Len(f.obs.persisted) = 1
    /\ RecordIntact(f, db)
    /\ \E k \in 1..Len(disk.rows) : disk.rows[k].id = f.obs.persisted[1]

\* the record the handler of f saved has been announced
RecordAnnounced(f) ==
    \E k \in 1..Len(emitted) :
        /\ emitted[k].id = f.obs.persisted[1]
        /\ emitted[k].sender = f.item.senderPhone

\* C32: once the reply to the sender has failed, the handler has ended by
\* the exception, the record it saved is in the store and has been announced,
\* and no template and no plain-text send was made for the item.
ReplyFailureStops ==
    \A i \in 1..Len(drains) :
        LET f == drains[i]
        IN  f.obs.reply = "failed"
            => /\ f.pc = "settled" /\ f.outcome = "thrown"
               /\ f.numbers = <<>>
               /\ f.obs.tpl = <<>>
               /\ f.obs.plain = <<>>
               /\ RecordKept(f)
               /\ RecordAnnounced(f)

\* how many sends of the log went to entry j of the destination list
SendsTo(log, j) == Cardinality({ k \in 1..Len(log) : log[k].j = j })

\* what the handler of f has done so far stays within the bounds
WorkBounded(f) ==
    /\ Len(f.obs.downloads) <= 2
    /\ f.obs.transcribeCalls <= 1
    /\ f.call # NoCall => f.call.attempts <= 3 /\ Len(f.call.seen) <= 3
    /\ Len(f.obs.inserted) <= 1
    /\ Len(f.obs.persisted) <= 1
    /\ f.obs.replies <= 1
    /\ f.obs.help <= 1
    /\ \A j \in 1..Len(f.numbers) :
          /\ SendsTo(f.obs.tpl, j) <= 1
          /\ SendsTo(f.obs.plain, j) <= 1
    /\ \A t \in Range(f.obs.tpl) \cup Range(f.obs.plain) : t.j \in 1..Len(f.numbers)

NothingReadEarly ==
    \A i \in 1..Len(drains) :
        LET o == drains[i].obs
        IN  /\ o.transcribeCalls = 0 => ~o.language.defined
            /\ o.persisted = <<>> => o.replies = 0

\* C34 (step part): the step that starts the transcription of an item passes
\* the language that default_language holds at that step (none for 'auto'),
\* and the step that persists its record sends the reply exactly when
\* auto_reply is 'true' at that step, whatever the two were when the item
\* was pushed; no other step, a settings update least of all, changes what
\* an item has read.
ReadAtUse ==
    \A i \in 1..Len(drains) :
        LET f == drains[i]
        IN  (Len(drains') >= i /\ drains'[i].item.tag = f.item.tag) =>
               LET g == drains'[i]
                   lang == db.settings["default_language"]
               IN  /\ IF g.obs.transcribeCalls # f.obs.transcribeCalls
                      THEN IF lang = "auto" THEN ~g.obs.language.defined
                           ELSE /\ g.obs.language.defined
                                /\ g.obs.language.value = lang
                      ELSE g.obs.language = f.obs.language
                   /\ IF g.obs.persisted # f.obs.persisted
                      THEN g.obs.replies = 1 <=> db.settings["auto_reply"] = "true"
                      ELSE g.obs.replies = f.obs.replies

\* C34: settings are read at the point of use.
ReadAtPointOfUse == []NothingReadEarly /\ [][ReadAtUse]_vars

\* the first item was pushed with auto_reply 'true' and default_language
\* 'auto' (updates come only while a handler waits); it was transcribed with
\* language hu and got no reply after its record was saved
ReadAtPointOfUseWitness ==
    \E i \in 1..Len(drains) :
        LET f == drains[i]
        IN  /\ f.item.tag = 1
            /\ f.obs.language = [defined |-> TRUE, value |-> "hu"]
            /\ Len(f.obs.persisted) = 1
            /\ f.obs.replies = 0
            /\ Ended(f) /\ f.outcome = "returned"

(***************************************************************************)
(* The live-update stream (SpecStream)                                     *)
(***************************************************************************)
\* C18 (step part): the step that emits an event brings it to every member
\* of sseClients whose own write gets through, whatever the writes to the
\* others do; a response that is not in sseClients gets nothing; attaching
\* writes the connected event to the new response only, and closing removes
\* that response only.
StreamStep ==
    /\ emitted' # emitted =>
          /\ Len(emitted') = Len(emitted) + 1
          /\ sseClients' = sseClients
          /\ \A c \in Range(sseClients) :
                delivered'[c] =
                   IF calls'.last.writes[c]
                   THEN Append(delivered[c], NewEvent(emitted'[Len(emitted')]))
                   ELSE delivered[c]
    /\ \A c \in SseClientIds :
          c \notin Range(sseClients) =>
             \/ delivered'[c] = delivered[c]
             \/ /\ delivered[c] = <<>>
                /\ delivered'[c] = <<ConnectedEvent>>
                /\ sseClients' = Append(sseClients, c)
                /\ \A o \in SseClientIds \ {c} : delivered'[o] = delivered[o]
    /\ \A c \in Range(sseClients) \ Range(sseClients') :
          /\ delivered' = delivered
          /\ Range(sseClients') = Range(sseClients) \ {c}

\* C18 (state part): no response holds an event twice, or one that was not
\* emitted.
StreamState ==
    \A c \in SseClientIds :
        \A k \in 2..Len(delivered[c]) :
            /\ delivered[c][k].type = "new_transcription"
            /\ delivered[c][k].data \in Range(emitted)
            /\ \A m \in 2..(k - 1) : delivered[c][m].id < delivered[c][k].id

\* C18: subscribers of the live-update stream are independent.
StreamIndependence == []StreamState /\ [][StreamStep]_vars

\* an event was emitted while two responses were attached: the write to the
\* first failed and the second received the event
StreamIndependenceWitness ==
    /\ calls.last.op = "save"
    /\ Len(calls.last.clients) = 2
    /\ ~calls.last.writes[calls.last.clients[1]]
    /\ calls.last.writes[calls.last.clients[2]]
    /\ emitted # <<>>
    /\ LET c == calls.last.clients[2]
       IN  delivered[c][Len(delivered[c])] = NewEvent(emitted[Len(emitted)])

(***************************************************************************)
(* The message timestamp (SpecClock)                                       *)
(***************************************************************************)
\* C20: the timestamp in the record of a queued voice message is the time
\* the item was pushed, in whole seconds.
TimestampIsEnqueueTime ==
    \A i \in 1..Len(drains) :
        LET f == drains[i]
        IN  \A k \in 1..Len(f.obs.inserted) :
                LET rec == getTranscription(db, f.obs.inserted[k])
                IN  rec # <<>> =>
                      rec[1].timestamp = f.item.enqueuedAt \div 1000

(***************************************************************************)
(* The list of records (SpecList)                                          *)
(***************************************************************************)
\* C21: whatever page and limit a request for the list names, the answer
\* holds at most 100 records.
PageSizeCapped ==
    calls.last.op = "list" => Len(calls.last.body.data) <= 100

(***************************************************************************)
(* The webhook boundary (SpecIntake)                                       *)
(***************************************************************************)
\* the signature check passes: no secret is configured, or the header is the
\* expected value
SignatureValid(secret, sig) ==
    ~secret \/ (sig.present /\ sig.length = SignatureLength /\ sig.matches)

Position(trace, what) ==
    IF \E k \in 1..Len(trace) : trace[k] = what
    THEN CHOOSE k \in 1..Len(trace) : trace[k] = what
    ELSE 0

IntakeStep ==
    StoreCall("webhook") =>
        LET r == calls'.last
            pushed == arrived' - arrived
        IN  /\ ~SignatureValid(appSecret, r.sig) =>
                  /\ r.status = 403
                  /\ pushed = 0
                  /\ UNCHANGED queueVars
            /\ SignatureValid(appSecret, r.sig) =>
                  /\ r.status = 200
                  /\ pushed = IF r.body.hasMessage THEN 1 ELSE 0
            /\ pushed = 1 =>
                  /\ Position(r.trace, "send200") >= 1
                  /\ Position(r.trace, "send200") < Position(r.trace, "push")

\* C22: every request is answered 200 before its message is pushed; a
\* request whose signature check fails is answered 403 and pushes nothing; an
\* accepted request pushes one item when it carries a message and none
\* otherwise.
IntakeBoundary == [][IntakeStep]_vars

(***************************************************************************)
(* The reply to the sender (SpecReply)                                     *)
(***************************************************************************)
\* C23 (state part): an item has at most one reply, and none unless its
\* record was persisted; while the reply is awaited its result is open; a
\* reply that failed has ended the handler by a throw, before any forward.
ReplyState ==
    \A i \in 1..Len(drains) :
        LET f == drains[i]
            o == f.obs
        IN  /\ o.replies <= 1
            /\ o.replies = (IF o.reply = "none" THEN 0 ELSE 1)
            /\ o.persisted = <<>> => o.replies = 0
            /\ f.pc = "reply" <=> o.reply = "pending"
            /\ o.reply = "failed" =>
                  Ended(f) /\ f.outcome = "thrown" /\ o.tpl = <<>>

\* C23 (step part): the step that persists the record of an item sends the
\* reply exactly when auto_reply is the string "true" at that moment; no
\* other step starts a reply; the step after a failed reply is the catch of
\* the drain loop, which logs the item as caught.
ReplyStep ==
    \A i \in 1..Len(drains) :
        LET f == drains[i]
        IN  /\ (Len(drains') >= i /\ drains'[i].item.tag = f.item.tag) =>
                  LET g == drains'[i]
                  IN  IF g.obs.persisted # f.obs.persisted
                      THEN IF getSetting(db', "auto_reply") = "true"
                           THEN g.obs.replies = 1 /\ g.pc = "reply"
                           ELSE g.obs.replies = 0 /\ g.pc # "reply"
                      ELSE g.obs.replies = f.obs.replies
            /\ (f.obs.reply = "failed" /\ completed' # completed) =>
                  completed'[Len(completed) + 1] =
                     [tag |-> f.item.tag, outcome |-> "caught"]

\* C23: the conditional reply.
ConditionalReply == []ReplyState /\ [][ReplyStep]_vars

\* two items were persisted: the handler of the first returned, the reply
\* for the second failed and its handler threw
ConditionalReplyWitness ==
    /\ Len(completed) = 1
    /\ completed[1].outcome = "returned"
    /\ Len(db.rows) = 2
    /\ \E i \in 1..Len(drains) :
          /\ drains[i].obs.reply = "failed"
          /\ drains[i].outcome = "thrown"
          /\ drains[i].obs.persisted # <<>>

NoticeFailed(f) == f.obs.notice = "failed"

\* C24 (state part): an item whose notice (after two failed downloads, or
\* for audio over 25 MiB) could not be sent has ended by a normal return, with
\* that one notice attempt and nothing else: no transcription call, no row, no
\* reply, no forward.
NoticeFailureSwallowed ==
    \A i \in 1..Len(drains) :
        LET f == drains[i]
            o == f.obs
        IN  /\ o.notice # "none" =>
                  /\ Len(o.notices) = 1
                  /\ o.notices[1] \in {"download", "tooLarge"}
                  /\ o.notices[1] = "tooLarge" <=> f.size > MiB25
                  /\ o.transcribeCalls = 0 /\ f.call = NoCall
                  /\ o.inserted = <<>> /\ o.persisted = <<>>
                  /\ o.replies = 0 /\ o.tpl = <<>> /\ o.plain = <<>>
            /\ o.notice = "pending" <=> f.pc \in {"noticeDownload", "noticeTooLarge"}
            /\ NoticeFailed(f) => Ended(f) /\ f.outcome = "returned"

\* C24 (step part): the step that follows logs the item as returned, leaves
\* the store alone and goes on: the head of the queue is dequeued by the same
\* loop, or the queue is empty and the flag is reset.
NoticeFailureProceeds ==
    \A i \in 1..Len(drains) :
        (NoticeFailed(drains[i]) /\ completed' # completed) =>
            /\ completed'[Len(completed) + 1] =
                  [tag |-> drains[i].item.tag, outcome |-> "returned"]
            /\ UNCHANGED storeVars
            /\ IF messageQueue # <<>>
               THEN /\ started'[Len(started) + 1] = Head(messageQueue).tag
                    /\ processing' /\ Len(drains') = Len(drains)
                    /\ drains'[i].item.tag = Head(messageQueue).tag
               ELSE /\ started' = started
                    /\ ~processing'
                    /\ drains' = RemoveAt(drains, i)

\* C24: a notice that cannot be sent is swallowed.
BestEffortNotice == []NoticeFailureSwallowed /\ [][NoticeFailureProceeds]_vars

\* the first item ended without a record and the loop went on: the
\* download-failure notice of the second item could not be sent, and its
\* handler has returned
BestEffortNoticeWitness ==
    /\ Len(completed) = 1
    /\ completed[1].outcome = "returned"
    /\ db.rows = <<>>
    /\ \E i \in 1..Len(drains) :
          /\ NoticeFailed(drains[i])
          /\ drains[i].obs.notices = <<"download">>
          /\ drains[i].item.tag = 2

(***************************************************************************)
(* The dispatch on the message type (SpecDispatch)                         *)
(***************************************************************************)
\* the bodies that are a help keyword once lowercased and trimmed
HelpBodies ==
    { <<" ", "H", "e", "l", "p">>,
      <<"H", "E", "L", "P", " ">>,
      <<"s", "e", "g", "i", "t", "s", "e", "g">> }

\* C25 (state part): a text item causes one help message when its body is
\* a help keyword and none otherwise (its handler has then returned at once);
\* it causes no download, no notice, no transcription call, no row, no reply
\* and no forward.
DispatchState ==
    \A i \in 1..Len(drains) :
        LET f == drains[i]
            o == f.obs
        IN  f.item.message.type = "text" =>
              /\ o.help = (IF f.item.message.text.body \in HelpBodies THEN 1 ELSE 0)
              /\ o.help = 0 => Ended(f) /\ f.outcome = "returned"
              /\ f.pc = "help" => o.help = 1
              /\ o.downloads = <<>> /\ o.notices = <<>> /\ o.transcribeCalls = 0
              /\ f.call = NoCall
              /\ o.inserted = <<>> /\ o.persisted = <<>>
              /\ o.replies = 0 /\ o.tpl = <<>> /\ o.plain = <<>>
        
NewlyStarted == { started'[k] : k \in (Len(started) + 1)..Len(started') }

\* C25 (step part): the store changes only in a step of the handler of an
\* audio item; every item the loop takes is gone from the queue; an item of
\* a type other than audio and text is logged as ignored in the step that
\* takes it, with no handler called for it, and no other item is.
DispatchStep ==
    /\ storeVars' # storeVars =>
          \E i \in 1..Len(drains) :
             drains[i].item.message.type = "audio" /\ drains[i].pc = "transcribe"
    /\ \A t \in NewlyStarted :
          /\ \A k \in 1..Len(messageQueue') : messageQueue'[k].tag # t
          /\ \/ \E i \in 1..Len(drains') :
                   /\ drains'[i].item.tag = t
                   /\ drains'[i].item.message.type \in {"audio", "text"}
             \/ /\ [tag |-> t, outcome |-> "ignored"] \in Range(completed')
                /\ \A i \in 1..Len(drains') : drains'[i].item.tag # t
    /\ \A k \in 1..Len(messageQueue) :
          messageQueue[k].tag \in NewlyStarted =>
             (messageQueue[k].message.type \notin {"audio", "text"}
                <=> [tag |-> messageQueue[k].tag, outcome |-> "ignored"]
                       \in Range(completed'))

\* C25: the dispatch on the type of the message.
MessageDispatch == []DispatchState /\ [][DispatchStep]_vars

\* a message of another type was ignored, then a help request got its one
\* help message and returned; the text "helps", which waited behind them,
\* has been taken from the queue and its handler has returned with nothing
\* sent and nothing stored
MessageDispatchWitness ==
    /\ Len(completed) = 2
    /\ completed[1].outcome = "ignored"
    /\ completed[2].outcome = "returned"
    /\ db.rows = <<>>
    /\ messageQueue = <<>>
    /\ \E i \in 1..Len(drains) :
          /\ Ended(drains[i])
          /\ drains[i].item.message.text.body = <<"h", "e", "l", "p", "s">>
          /\ drains[i].obs.help = 0
          /\ drains[i].item.waited

(***************************************************************************)
(* The duration of a record (SpecDuration)                                 *)
(***************************************************************************)
\* a JSON number is there, whatever its value
Present(j) == j.t = "num"

\* C27: the record of a queued voice message has source whatsapp, and its
\* duration is the duration of the transcription result if the result has
\* one, else the duration of the message if it has one, else null.
RecordDuration ==
    \A i \in 1..Len(drains) :
        LET f == drains[i]
            result == f.call.lastResp.json.duration
            meta == f.item.message.audio.duration
        IN  \A k \in 1..Len(f.obs.inserted) :
                LET rec == getTranscription(db, f.obs.inserted[k])
                IN  rec # <<>> =>
                      /\ rec[1].source = "whatsapp"
                      /\ rec[1].duration =
                            IF Present(result) THEN result
                            ELSE IF Present(meta) THEN meta
                            ELSE JNull

====
